---- MODULE Spec2Model ----
(***************************************************************************)
(* Model of the AdventureCoin block explorer's read side:                  *)
(*   - the price cache (lib/price: getADVCPrice),                          *)
(*   - the views derived from the storage collections (lib/data).          *)
(* Every operation is translated from its source; each await of a handler   *)
(* that other requests can interleave with is a step of its own.           *)
(***************************************************************************)
EXTENDS Integers, Sequences, FiniteSets, TLC

(***************************************************************************)
(* Bounds of the model.                                                    *)
(***************************************************************************)
NumCallers == 2
MaxTicks == 4
NumHashes == 3
MaxTxs == 3
MaxPage == 2
MaxLimit == 2
MaxSnaps == 2
MaxCycle == 11

\* The JavaScript null / undefined of an absent document or object.
Null == [null |-> TRUE]

\* The null / undefined / missing field where a string is expected.
NullStr == "null"

Min(a, b) == IF a <= b THEN a ELSE b
Max(a, b) == IF a >= b THEN a ELSE b

\* Math.ceil(a / b) for a >= 0, b > 0
Ceil(a, b) == (a + b - 1) \div b

VARIABLES
    \* ---- lib/price ----
    priceCache,   \* the module-level cache slot: Null or [price, timestamp]
    now,          \* Date.now(), in milliseconds
    pc,           \* per request of getADVCPrice: "idle", "fetch" (awaiting fetch), "json" (awaiting response.json())
    ret,          \* per request: the value its last finished call returned
    path,         \* per request: how its last finished call returned
    attempts,     \* per request: fetches started by its current (or last) call
    \* ---- storage (written by the external ingester, read by lib/data) ----
    txes,         \* collection "txes": the TransactionRecords, in insertion order
    addresstxes,  \* collection "addresstxes": the AddressIndexRecords, in insertion order
    blocks,       \* collection "blocks": the dedicated block store (empty when the deployment has none)
    networkhistories, \* collection "networkhistories": the NetworkHistorySnapshots, in insertion order
    mempool,      \* collection "mempool": the stored snapshot of the node's mempool, in insertion order
    mempoolstats, \* collection "mempoolstats": its single record, Null when absent
    coinstats,    \* collection "coinstats": its single record, Null when absent
    \* ---- lib/data ----
    call,         \* the request in flight between two storage reads, [op |-> "none"] when there is none;
                  \* counted is the length the append-only log had at the first read
    res           \* what the request that finished in the last step returned (or that it threw)

priceVars == <<priceCache, now, pc, ret, path, attempts>>

\* the collections only the mempool, transaction-detail and mining views read
poolVars == <<mempool, mempoolstats, coinstats>>

dataVars == <<txes, addresstxes, blocks, networkhistories, mempool, mempoolstats, coinstats, call, res>>

vars == <<priceCache, now, pc, ret, path, attempts, txes, addresstxes, blocks, networkhistories,
          mempool, mempoolstats, coinstats, call, res>>

NoCall == [op |-> "none"]
NoResult == [op |-> "none"]

(***************************************************************************)
(* lib/price                                                               *)
(***************************************************************************)
CACHE_DURATION == 20 * 60 * 1000

\* The clock advances in steps of ten minutes, so that the ages 0, 10, 20
\* (the boundary), 30 and 40 minutes all occur.
TickMs == 10 * 60 * 1000

Callers == 1 .. NumCallers

\* Prices the feed can quote, in units of 10^-7 USD (one digit more than
\* toFixed(6) keeps).
FeedPrices == {12345604, 12345616, 5000000}

DigitChar(d) == <<"0", "1", "2", "3", "4", "5", "6", "7", "8", "9">>[d + 1]

RECURSIVE Digits(_)
\* the decimal digits of n >= 0, most significant first, at least one digit
Digits(n) == IF n < 10 THEN <<DigitChar(n)>> ELSE Append(Digits(n \div 10), DigitChar(n % 10))

RECURSIVE PadDigits(_, _)
\* the decimal digits of n, left-padded with zeros to w digits
PadDigits(n, w) == IF w = 0 THEN <<>> ELSE Append(PadDigits(n \div 10, w - 1), DigitChar(n % 10))

\* Number.prototype.toFixed(6) of the price p * 10^-7: rounded to six
\* decimals, as the string's characters.
ToFixed6(p) ==
    LET micro == (p + 5) \div 10
    IN  Digits(micro \div 1000000) \o <<".">> \o PadDigits(micro % 1000000, 6)

DefaultPrice == <<"0", ".", "0", "0", "0", "0", "0", "0">>

\* (a plausible slip: the age test inverted)
CacheValidInverted(cache, t) == cache # Null /\ t - cache.timestamp > CACHE_DURATION

\* line 13: priceCache && Date.now() - priceCache.timestamp < CACHE_DURATION
CacheValid(cache, t) == cache # Null /\ t - cache.timestamp < CACHE_DURATION

PriceInit ==
    /\ priceCache = Null
    /\ now = 0
    /\ pc = [c \in Callers |-> "idle"]
    /\ ret = [c \in Callers |-> <<>>]
    /\ path = [c \in Callers |-> "none"]
    /\ attempts = [c \in Callers |-> 0]

\* Time passes.
Tick ==
    /\ now < MaxTicks * TickMs
    /\ now' = now + TickMs
    /\ UNCHANGED <<priceCache, pc, ret, path, attempts>>
    /\ UNCHANGED dataVars

\* getADVCPrice, lines 11-25: the cache test, and the start of the fetch.
CallPrice(c) ==
    /\ pc[c] = "idle"
    /\ IF CacheValid(priceCache, now)
       THEN /\ ret' = [ret EXCEPT ![c] = priceCache.price]
            /\ path' = [path EXCEPT ![c] = "hit"]
            /\ attempts' = [attempts EXCEPT ![c] = 0]
            /\ UNCHANGED pc
       ELSE /\ pc' = [pc EXCEPT ![c] = "fetch"]
            /\ attempts' = [attempts EXCEPT ![c] = 1]
            /\ UNCHANGED <<ret, path>>
    /\ UNCHANGED <<priceCache, now>>
    /\ UNCHANGED dataVars

\* (a plausible slip: the stale entry is forgotten on failure)
PriceFallbackIgnoresStale(cache) == DefaultPrice

\* (a plausible slip: the default written with two decimals)
PriceFallbackTwoDecimals(cache) == IF cache # Null THEN cache.price ELSE <<"0", ".", "0", "0">>

\* lines 44-54: the catch block
PriceFallback(cache) == IF cache # Null THEN cache.price ELSE DefaultPrice

\* (a plausible slip: the slot cleared when a fetch fails)
CacheClearedOnFailure(cache) == Null

\* lines 44-54: the catch block reads the slot and assigns nothing to it
CacheAfterFailure(cache) == cache

FailPrice(c) ==
    /\ ret' = [ret EXCEPT ![c] = PriceFallback(priceCache)]
    /\ path' = [path EXCEPT ![c] = IF priceCache # Null THEN "stale" ELSE "default"]
    /\ pc' = [pc EXCEPT ![c] = "idle"]
    /\ priceCache' = CacheAfterFailure(priceCache)
    /\ UNCHANGED <<now, attempts>>
    /\ UNCHANGED dataVars

\* lines 19-29: the fetch settles: it rejects (network error), or resolves
\* with a response whose ok flag is false, or with an OK response.
FetchSettles(c) ==
    /\ pc[c] = "fetch"
    /\ \E outcome \in {"network-error", "not-ok", "ok"} :
         IF outcome = "ok"
         THEN /\ pc' = [pc EXCEPT ![c] = "json"]
              /\ UNCHANGED <<priceCache, now, ret, path, attempts>>
              /\ UNCHANGED dataVars
         ELSE FailPrice(c)

\* (a plausible slip: the price replaced alone, the timestamp of the entry
\* in the slot kept)
NewEntryKeepsTimestamp(p, t) ==
    [price |-> ToFixed6(p), timestamp |-> IF priceCache = Null THEN t ELSE priceCache.timestamp]

\* lines 33-39: the cache entry written for a numeric USD price
NewEntry(p, t) == [price |-> ToFixed6(p), timestamp |-> t]

\* lines 31-43: response.json() settles: it rejects, or yields a body without
\* a numeric quotes.USD.price, or a body with one.
JsonSettles(c) ==
    /\ pc[c] = "json"
    /\ \/ \E p \in FeedPrices :
            /\ priceCache' = NewEntry(p, now)
            /\ ret' = [ret EXCEPT ![c] = ToFixed6(p)]
            /\ path' = [path EXCEPT ![c] = "fresh"]
            /\ pc' = [pc EXCEPT ![c] = "idle"]
            /\ UNCHANGED <<now, attempts>>
            /\ UNCHANGED dataVars
       \/ FailPrice(c)

PriceNext ==
    \/ Tick
    \/ \E c \in Callers : CallPrice(c)
    \/ \E c \in Callers : FetchSettles(c)
    \/ \E c \in Callers : JsonSettles(c)

(***************************************************************************)
(* Storage: the collections lib/data reads. They are written by the        *)
(* external ingester only.                                                 *)
(***************************************************************************)
\* The blocks of the chain the ingester can see. A block hash determines the
\* block's height and time; hashes 2 and 3 are two blocks at one height (a
\* fork), the second one mined earlier than the first.
Hashes == 1 .. NumHashes
HashName(h) == <<"h1", "h2", "h3", "h4", "h5", "h6">>[h]
HeightOf(h) == h \div 2 + 1
TimeOf(h) == 100 * HeightOf(h) + (IF h % 2 = 0 THEN 50 ELSE 10)

\* The vin / vout of a stored transaction: the coinbase of a block paying A
\* then B, a coinbase without outputs, and a transfer from X to B.
TxShapes ==
    { [vin  |-> <<[addresses |-> "coinbase", amount |-> 300]>>,
       vout |-> <<[addresses |-> "A", amount |-> 200], [addresses |-> "B", amount |-> 100]>>],
      [vin  |-> <<[addresses |-> "coinbase", amount |-> 0]>>,
       vout |-> <<>>],
      [vin  |-> <<[addresses |-> "X", amount |-> 50]>>,
       vout |-> <<[addresses |-> "B", amount |-> 50]>>] }

\* the transfer alone, where vin and vout play no part
PlainShapes ==
    { [vin  |-> <<[addresses |-> "X", amount |-> 50]>>,
       vout |-> <<[addresses |-> "B", amount |-> 50]>>] }

\* the next transaction the ingester processes, and the height it has reached
NextTxid == Len(txes) + Cardinality({addresstxes[i].txid : i \in DOMAIN addresstxes} \ {txes[i].txid : i \in DOMAIN txes}) + 1
LastHeight ==
    IF txes = <<>> /\ addresstxes = <<>> THEN 0
    ELSE CHOOSE m \in 1 .. NumHashes :
           /\ \A d \in {txes[i].blockindex : i \in DOMAIN txes} \cup {addresstxes[i].blockindex : i \in DOMAIN addresstxes} : d <= m
           /\ m \in {txes[i].blockindex : i \in DOMAIN txes} \cup {addresstxes[i].blockindex : i \in DOMAIN addresstxes}

\* The ingester appends one TransactionRecord of block h; it walks the chain
\* upwards, block after block, so the records of a block are neighbours.
\* Records are never changed or removed; txid is unique.
IngestTx(shapes) ==
    /\ res = NoResult
    /\ NextTxid <= MaxTxs
    /\ \E h \in Hashes, s \in shapes :
         /\ HeightOf(h) >= LastHeight
         /\ \/ txes # <<>> /\ txes[Len(txes)].blockhash = HashName(h)
            \/ \A i \in DOMAIN txes : txes[i].blockhash # HashName(h)
         /\ txes' = Append(txes, [txid |-> NextTxid, blockhash |-> HashName(h),
                                  blockindex |-> HeightOf(h), timestamp |-> TimeOf(h),
                                  vin |-> s.vin, vout |-> s.vout])
    /\ UNCHANGED <<addresstxes, blocks, networkhistories, call, res>>
    /\ UNCHANGED priceVars
    /\ UNCHANGED poolVars

(***************************************************************************)
(* The storage driver's queries, as far as lib/data uses them.             *)
(***************************************************************************)
RECURSIVE Keyed(_)
\* the orders of the keyed documents P (pairs <<key, document>>), highest key first
Keyed(P) ==
    IF P = {} THEN {<<>>}
    ELSE LET top == {p \in P : \A q \in P : p[1] >= q[1]}
         IN  UNION {{<<p[2]>> \o o : o \in Keyed(P \ {p})} : p \in top}

\* sort({key: -1}) over the documents S with keys k: every order the driver
\* may return, documents with equal keys in any order
Orders(S, k) == Keyed({<<k[m], m>> : m \in S})

\* the documents of coll in the orders sort({field: -1}) / sort({field: 1}) may give
SortDesc(coll, field) ==
    {[i \in DOMAIN o |-> coll[o[i]]] : o \in Orders(DOMAIN coll, [i \in DOMAIN coll |-> coll[i][field]])}
SortAsc(coll, field) ==
    {[i \in DOMAIN o |-> coll[o[i]]] : o \in Orders(DOMAIN coll, [i \in DOMAIN coll |-> 0 - coll[i][field]])}

\* skip(n).limit(m) / { $skip: n }, { $limit: m }
SkipLimit(s, n, m) == SubSeq(s, n + 1, Min(Len(s), n + m))

\* distinct(field): the different values of the field
Distinct(coll, field) == {coll[i][field] : i \in DOMAIN coll}

\* find({field: value}).toArray(): the matching documents in natural order
Find(coll, field, value) == SelectSeq(coll, LAMBDA d : d[field] = value)

\* find({field: {$lte: value}}).toArray()
FindLte(coll, field, value) == SelectSeq(coll, LAMBDA d : d[field] <= value)

\* findOne(filter, {sort}): the first document of a sorted listing, or null
First(s) == IF s = <<>> THEN Null ELSE s[1]

\* $arrayElemAt: [array, 0]: the element, or missing (absent)
ElemAt0(a, absent) == IF a = <<>> THEN absent ELSE a[1]

\* "$$this.vin.addresses" / "$$coinbaseTx.vout.addresses": the addresses field
\* of each element of an array field (nothing for a missing document)
Addresses(a) == [i \in DOMAIN a |-> a[i].addresses]

(***************************************************************************)
(* lib/data: the block aggregation of getLatestBlocks / getPaginatedBlocks *)
(***************************************************************************)
\* (a plausible slip: the miner read off the first transaction of the group,
\* coinbase or not)
MinedByFirstTransaction(transactions) ==
    IF transactions = <<>> THEN NullStr ELSE ElemAt0(Addresses(transactions[1].vout), NullStr)

\* $addFields minedBy, lines 101-121 and 747-768
MinedBy(transactions) ==
    LET IsCoinbase(t) == ElemAt0(Addresses(t.vin), NullStr) = "coinbase"
        coinbaseTx == ElemAt0(SelectSeq(transactions, IsCoinbase), Null)
    IN  IF coinbaseTx = Null THEN NullStr ELSE ElemAt0(Addresses(coinbaseTx.vout), NullStr)

\* (a plausible slip: the group counted without its first document)
GroupCountOffByOne(sorted, h) ==
    LET InGroup(t) == t.blockhash = h
    IN  Len(SelectSeq(sorted, InGroup)) - 1

\* $sum: 1 of the $group stage
GroupCount(sorted, h) ==
    LET InGroup(t) == t.blockhash = h
    IN  Len(SelectSeq(sorted, InGroup))

\* $group by blockhash of the sorted documents, with $addFields and $project:
\* the derived block of hash h
GroupOf(sorted, h) ==
    LET InGroup(t) == t.blockhash = h
        transactions == SelectSeq(sorted, InGroup)
    IN  [_id |-> h, height |-> transactions[1].blockindex, hash |-> transactions[1].blockhash,
         timestamp |-> transactions[1].timestamp, txCount |-> GroupCount(sorted, h),
         minedBy |-> MinedBy(transactions)]

\* the pipeline up to { $sort: { height: -1 } }: every listing it may produce
BlockPipeline(coll) ==
    UNION { LET hs == Distinct(sorted, "blockhash")
                groups == [h \in hs |-> GroupOf(sorted, h)]
            IN  {[i \in DOMAIN o |-> groups[o[i]]] : o \in Orders(hs, [h \in hs |-> groups[h].height])}
          : sorted \in SortDesc(coll, "blockindex") }

Pages == 1 .. MaxPage
Limits == 1 .. MaxLimit

\* no request is in flight and the last response has been handed over
Idle == call = NoCall /\ res = NoResult

\* the response of the finished request is handed to its caller
Respond ==
    /\ res # NoResult
    /\ res' = NoResult
    /\ UNCHANGED <<txes, addresstxes, blocks, networkhistories, call>>
    /\ UNCHANGED priceVars
    /\ UNCHANGED poolVars

Finish(r) ==
    /\ res' = r
    /\ call' = NoCall
    /\ UNCHANGED <<txes, addresstxes, blocks, networkhistories>>
    /\ UNCHANGED priceVars
    /\ UNCHANGED poolVars

Continue(c) ==
    /\ call' = c
    /\ UNCHANGED <<txes, addresstxes, blocks, networkhistories, res>>
    /\ UNCHANGED priceVars
    /\ UNCHANGED poolVars

\* getLatestBlocks, lines 81-134: one read; any failure gives the empty list
GetLatestBlocks(limit) ==
    /\ Idle
    /\ \E failed \in {"none", "connect", "aggregate"} :
         IF failed # "none"
         THEN Finish([op |-> "getLatestBlocks", outcome |-> "returned", failed |-> failed,
                      limit |-> limit, skip |-> 0, blocks |-> <<>>])
         ELSE \E listing \in BlockPipeline(txes) :
                Finish([op |-> "getLatestBlocks", outcome |-> "returned", failed |-> failed,
                        limit |-> limit, skip |-> 0, blocks |-> SkipLimit(listing, 0, limit)])

\* lines 784-796: what getPaginatedBlocks returns from its catch block
PaginatedBlocksError(page, limit, failed, counted) ==
    [op |-> "getPaginatedBlocks", outcome |-> "returned", failed |-> failed,
     page |-> page, limit |-> limit, skip |-> (page - 1) * limit, blocks |-> <<>>,
     totalPages |-> 1, totalItems |-> 0, stable |-> (counted = Len(txes))]

\* (a plausible slip: the skip one page too far)
PageSkipOffByOne(page, limit) == page * limit

\* lines 725, 805, 818: const skip = (page - 1) * limit
PageSkip(page, limit) == (page - 1) * limit

\* getPaginatedBlocks, lines 720-730: the connection (outside the try) and the
\* distinct read with the count
PaginatedBlocksCount(page, limit) ==
    /\ Idle
    /\ \E failed \in {"none", "connect", "distinct"} :
         CASE failed = "connect" ->
                Finish([op |-> "getPaginatedBlocks", outcome |-> "threw", failed |-> failed])
           [] failed = "distinct" ->
                Finish(PaginatedBlocksError(page, limit, failed, Len(txes)))
           [] OTHER ->
                LET distinctBlockHashes == Distinct(txes, "blockhash")
                    totalCount == Cardinality(distinctBlockHashes)
                IN  Continue([op |-> "getPaginatedBlocks", page |-> page, limit |-> limit,
                              skip |-> PageSkip(page, limit), totalCount |-> totalCount,
                              totalPages |-> Ceil(totalCount, limit), counted |-> Len(txes)])

\* getPaginatedBlocks, lines 732-797: the aggregation and the result
PaginatedBlocksRead ==
    /\ call.op = "getPaginatedBlocks"
    /\ res = NoResult
    /\ \E failed \in {"none", "aggregate"} :
         IF failed # "none"
         THEN Finish(PaginatedBlocksError(call.page, call.limit, failed, call.counted))
         ELSE \E listing \in BlockPipeline(txes) :
                Finish([op |-> "getPaginatedBlocks", outcome |-> "returned", failed |-> failed,
                        page |-> call.page, limit |-> call.limit, skip |-> call.skip,
                        blocks |-> SkipLimit(listing, call.skip, call.limit),
                        totalPages |-> call.totalPages, totalItems |-> call.totalCount,
                        stable |-> (call.counted = Len(txes))])

BlocksNext ==
    \/ Respond
    \/ IngestTx(TxShapes)
    \/ \E limit \in Limits : GetLatestBlocks(limit)
    \/ \E page \in Pages, limit \in Limits : PaginatedBlocksCount(page, limit)
    \/ PaginatedBlocksRead

(***************************************************************************)
(* lib/data: getPaginatedTransactions and getPaginatedAddressTransactions  *)
(***************************************************************************)
\* getPaginatedTransactions, lines 799-805: the connection and the count. No
\* failure is caught in this function.
PaginatedTxCount(page, limit) ==
    /\ Idle
    /\ \E failed \in {"none", "connect", "countDocuments"} :
         IF failed # "none"
         THEN Finish([op |-> "getPaginatedTransactions", outcome |-> "threw", failed |-> failed])
         ELSE LET totalCount == Len(txes)
              IN  Continue([op |-> "getPaginatedTransactions", page |-> page, limit |-> limit,
                            skip |-> PageSkip(page, limit), totalCount |-> totalCount,
                            totalPages |-> Ceil(totalCount, limit), counted |-> Len(txes)])

\* getPaginatedTransactions, lines 807-809: the page read and the result
PaginatedTxRead ==
    /\ call.op = "getPaginatedTransactions"
    /\ res = NoResult
    /\ \E failed \in {"none", "find"} :
         IF failed # "none"
         THEN Finish([op |-> "getPaginatedTransactions", outcome |-> "threw", failed |-> failed])
         ELSE \E sorted \in SortDesc(txes, "timestamp") :
                Finish([op |-> "getPaginatedTransactions", outcome |-> "returned", failed |-> failed,
                        page |-> call.page, limit |-> call.limit, skip |-> call.skip,
                        transactions |-> SkipLimit(sorted, call.skip, call.limit),
                        totalPages |-> call.totalPages, totalItems |-> call.totalCount,
                        stable |-> (call.counted = Len(txes))])

AddrList == <<"A", "B">>
Addrs == {AddrList[i] : i \in DOMAIN AddrList}

\* The ingester processes one more transaction, of block h: it appends an
\* AddressIndexRecord for each address the transaction touches, and the
\* TransactionRecord itself, unless that write is lost, in which case the
\* index names a transaction the log does not have.
IngestIndexedTx ==
    /\ res = NoResult
    /\ NextTxid <= MaxTxs
    /\ \E h \in Hashes, touched \in (SUBSET Addrs) \ {{}}, stored \in BOOLEAN :
         /\ HeightOf(h) >= LastHeight
         /\ addresstxes' = addresstxes \o
                [i \in 1 .. Cardinality(touched) |->
                    [a_id |-> SelectSeq(AddrList, LAMBDA a : a \in touched)[i],
                     txid |-> NextTxid, blockindex |-> HeightOf(h)]]
         /\ txes' = IF stored
                    THEN Append(txes, [txid |-> NextTxid, blockhash |-> HashName(h),
                                       blockindex |-> HeightOf(h), timestamp |-> TimeOf(h),
                                       vin |-> <<[addresses |-> "X", amount |-> 50]>>,
                                       vout |-> <<[addresses |-> "B", amount |-> 50]>>])
                    ELSE txes
    /\ UNCHANGED <<blocks, networkhistories, call, res>>
    /\ UNCHANGED priceVars
    /\ UNCHANGED poolVars

\* lines 829-839: the join of the page's index records with the transaction
\* log; a record without its transaction is skipped
RECURSIVE Enrich(_)
Enrich(addressTxs) ==
    IF addressTxs = <<>> THEN <<>>
    ELSE LET tx == addressTxs[1]
             transaction == First(Find(txes, "txid", tx.txid))
         IN  IF transaction # Null
             THEN <<[a_id |-> tx.a_id, txid |-> tx.txid, blockindex |-> tx.blockindex,
                     timestamp |-> transaction.timestamp]>> \o Enrich(Tail(addressTxs))
             ELSE Enrich(Tail(addressTxs))

\* (a plausible slip: the total taken from the joined records)
AddressTotalOfJoined(address) ==
    Len(Enrich(Find(addresstxes, "a_id", address)))

\* line 816: countDocuments({ a_id: address })
AddressTotal(address) == Len(Find(addresstxes, "a_id", address))

\* getPaginatedAddressTransactions, lines 812-842. No failure is caught in
\* this function.
GetPaginatedAddressTransactions(address, page, limit) ==
    /\ Idle
    /\ \E failed \in {"none", "connect", "countDocuments", "find", "findOne"} :
         IF failed # "none"
         THEN Finish([op |-> "getPaginatedAddressTransactions", outcome |-> "threw",
                      failed |-> failed])
         ELSE LET totalCount == AddressTotal(address)
                  totalPages == Ceil(totalCount, limit)
                  skip == PageSkip(page, limit)
              IN  \E sorted \in SortDesc(Find(addresstxes, "a_id", address), "blockindex") :
                    LET addressTxs == SkipLimit(sorted, skip, limit)
                    IN  Finish([op |-> "getPaginatedAddressTransactions", outcome |-> "returned",
                                failed |-> failed, address |-> address, page |-> page,
                                limit |-> limit, skip |-> skip, addressTxs |-> addressTxs,
                                transactions |-> Enrich(addressTxs),
                                totalPages |-> totalPages, totalItems |-> totalCount])

(***************************************************************************)
(* lib/data: getNextBlockHash and getBlockByHash                           *)
(***************************************************************************)
\* The ingester records block h in the dedicated block store, walking the
\* chain upwards; a block is recorded once. No request reads the block store
\* twice, so a block recorded while a request is between two reads is taken
\* as recorded after it.
IngestBlock ==
    /\ res = NoResult
    /\ call = NoCall
    /\ \E h \in Hashes :
         /\ \A i \in DOMAIN blocks : blocks[i].hash # HashName(h) /\ blocks[i].height <= HeightOf(h)
         /\ blocks' = Append(blocks, [height |-> HeightOf(h), hash |-> HashName(h),
                                      timestamp |-> TimeOf(h), difficulty |-> 10 * h])
    /\ UNCHANGED <<txes, addresstxes, networkhistories, call, res>>
    /\ UNCHANGED priceVars
    /\ UNCHANGED poolVars

Difficulties == {5, 7}

\* The collector appends one NetworkHistorySnapshot, at block cadence.
IngestSnapshot ==
    /\ res = NoResult
    /\ Len(networkhistories) < MaxSnaps
    /\ \E b \in 1 .. HeightOf(NumHashes), d \in Difficulties :
         /\ \A i \in DOMAIN networkhistories : networkhistories[i].blockindex <= b
         /\ networkhistories' = Append(networkhistories,
                [blockindex |-> b, timestamp |-> 100 * b, difficulty_pow |-> d, nethash |-> 1000 * d])
    /\ UNCHANGED <<txes, addresstxes, blocks, call, res>>
    /\ UNCHANGED priceVars
    /\ UNCHANGED poolVars

\* findOne({ height: h }) on the block store: the first match in natural
\* order, or null
BlockAt(h) == First(Find(blocks, "height", h))

\* (a plausible slip: the latest transaction of the height, as for the
\* previous block)
TxAtLatest(h) ==
    {First(s) : s \in SortDesc(Find(txes, "blockindex", h), "timestamp")}

\* lines 201-203: findOne({ blockindex: h }, { sort: { timestamp: 1 } }): the
\* documents the driver may return
TxAtEarliest(h) ==
    {First(s) : s \in SortAsc(Find(txes, "blockindex", h), "timestamp")}

\* getNextBlockHash, lines 192-217: any failure gives null
GetNextBlockHash(currentHeight) ==
    /\ Idle
    /\ \E failed \in {"none", "connect", "blocks.findOne", "txes.findOne"} :
         LET nextBlock == BlockAt(currentHeight + 1)
         IN  CASE failed = "connect" \/ failed = "blocks.findOne" ->
                    Finish([op |-> "getNextBlockHash", outcome |-> "returned", failed |-> failed,
                            currentHeight |-> currentHeight, value |-> NullStr])
               [] failed = "txes.findOne" ->
                    \* the second read is made only when the block store has no entry
                    Finish([op |-> "getNextBlockHash", outcome |-> "returned",
                            failed |-> IF nextBlock = Null THEN failed ELSE "none",
                            currentHeight |-> currentHeight,
                            value |-> IF nextBlock = Null THEN NullStr ELSE nextBlock.hash])
               [] OTHER ->
                    IF nextBlock # Null
                    THEN Finish([op |-> "getNextBlockHash", outcome |-> "returned", failed |-> failed,
                                 currentHeight |-> currentHeight, value |-> nextBlock.hash])
                    ELSE \E nextBlockTx \in TxAtEarliest(currentHeight + 1) :
                           Finish([op |-> "getNextBlockHash", outcome |-> "returned", failed |-> failed,
                                   currentHeight |-> currentHeight,
                                   value |-> IF nextBlockTx # Null THEN nextBlockTx.blockhash ELSE NullStr])

\* lines 163-165: findOne({ blockindex: h }, { sort: { timestamp: -1 } })
PreviousBlockTx(h) ==
    {First(s) : s \in SortDesc(Find(txes, "blockindex", h), "timestamp")}

\* (a plausible slip: the filter on the height forgotten)
LatestSnapshot(h) ==
    {First(s) : s \in SortDesc(networkhistories, "blockindex")}

\* lines 181-183 and 904-906:
\* findOne({ blockindex: { $lte: h } }, { sort: { blockindex: -1 } })
SnapshotAtOrBelow(h) ==
    {First(s) : s \in SortDesc(FindLte(networkhistories, "blockindex", h), "blockindex")}

\* getBlockByHash, lines 151-190. No failure is caught in this function.
GetBlockByHash(hash) ==
    /\ Idle
    /\ \E failed \in {"none", "connect", "find", "txes.findOne", "networkhistories.findOne"} :
         LET transactions == Find(txes, "blockhash", hash)
         IN  IF failed \in {"connect", "find"} \/ (failed # "none" /\ transactions # <<>>)
             THEN Finish([op |-> "getBlockByHash", outcome |-> "threw", failed |-> failed])
             ELSE IF transactions = <<>>
             THEN Finish([op |-> "getBlockByHash", outcome |-> "returned", failed |-> "none",
                          hash |-> hash, value |-> Null])
             ELSE LET blockHeight == transactions[1].blockindex
                  IN  \E previousBlock \in PreviousBlockTx(blockHeight - 1),
                         networkHistory \in SnapshotAtOrBelow(blockHeight) :
                        Finish([op |-> "getBlockByHash", outcome |-> "returned", failed |-> "none",
                                hash |-> hash,
                                value |-> [hash |-> hash, height |-> blockHeight,
                                           previousblockhash |-> IF previousBlock # Null
                                                                 THEN previousBlock.blockhash
                                                                 ELSE NullStr,
                                           timestamp |-> transactions[1].timestamp,
                                           txCount |-> Len(transactions),
                                           difficulty |-> IF networkHistory # Null
                                                          THEN networkHistory.difficulty_pow
                                                          ELSE 0,
                                           nonce |-> 0, size |-> 0]])

\* getTransactionsByBlockHash, lines 219-225. No failure is caught in this
\* function.
GetTransactionsByBlockHash(hash) ==
    /\ Idle
    /\ \E failed \in {"none", "connect", "find"} :
         IF failed # "none"
         THEN Finish([op |-> "getTransactionsByBlockHash", outcome |-> "threw", failed |-> failed])
         ELSE Finish([op |-> "getTransactionsByBlockHash", outcome |-> "returned", failed |-> failed,
                      hash |-> hash, value |-> Find(txes, "blockhash", hash)])

(***************************************************************************)
(* lib/data: getMiningStats                                                *)
(***************************************************************************)
\* A JavaScript number that is the quotient of two integers, kept exact
Frac(n, d) == [num |-> n, den |-> d]

RECURSIVE GCD(_, _)
GCD(a, b) == IF b = 0 THEN a ELSE GCD(b, a % b)

\* the same number in lowest terms
Reduced(f) == LET g == GCD(f.num, f.den) IN IF g = 0 THEN f ELSE Frac(f.num \div g, f.den \div g)

\* lines 574-577: the AdventureCoin parameters
blockReward == 300
halvingInterval == 300000
blockTime == 180
maxSupply == 180000000

\* the heights the chain is sampled at: the start, the middle and the last
\* block of every halving cycle up to MaxCycle
ScheduleHeights ==
    UNION {{k * halvingInterval, k * halvingInterval + 150000, k * halvingInterval + 299999} : k \in 0 .. MaxCycle}

\* The sync script rewrites the CoinStats record as the chain grows.
UpdateCoinStats(heights) ==
    /\ res = NoResult
    /\ \E h \in heights :
         /\ coinstats # Null => h > coinstats.count
         /\ coinstats' = [count |-> h, supply |-> 100 * (h \div 1000)]
    /\ UNCHANGED <<txes, addresstxes, blocks, networkhistories, mempool, mempoolstats, call, res>>
    /\ UNCHANGED priceVars

\* (a plausible slip: the quotient rounded up)
HalvingCycleRoundedUp(currentBlock) == (currentBlock + halvingInterval - 1) \div halvingInterval

\* line 580: Math.floor(currentBlock / halvingInterval)
HalvingCycle(currentBlock) == currentBlock \div halvingInterval

\* (a plausible slip: the status read off the height alone)
CheckpointStatusByHeight(isCurrent, reached) == IF reached THEN "past" ELSE "future"

\* lines 606, 614, ..., 678: cycle === k ? "active" : currentBlock >= height ? "past" : "future"
CheckpointStatus(isCurrent, reached) == IF isCurrent THEN "active" ELSE IF reached THEN "past" ELSE "future"

\* lines 591-680: the halving table with the status of each checkpoint
HalvingSchedule(currentBlock, currentHalvingCycle) ==
    <<
       [halving |-> 0, height |-> 0, reward |-> Frac(300, 1), supply |-> 0, date |-> "Apr 2025",
        status |-> IF currentHalvingCycle = 0 THEN "active" ELSE "past"],
       [halving |-> 1, height |-> 300000, reward |-> Frac(150, 1), supply |-> 135000000, date |-> "Jan 2027",
        status |-> CheckpointStatus(currentHalvingCycle = 1, currentBlock >= 300000)],
       [halving |-> 2, height |-> 600000, reward |-> Frac(75, 1), supply |-> 157500000, date |-> "Oct 2028",
        status |-> CheckpointStatus(currentHalvingCycle = 2, currentBlock >= 600000)],
       [halving |-> 3, height |-> 900000, reward |-> Frac(375, 10), supply |-> 168750000, date |-> "Jun 2030",
        status |-> CheckpointStatus(currentHalvingCycle = 3, currentBlock >= 900000)],
       [halving |-> 4, height |-> 1200000, reward |-> Frac(1875, 100), supply |-> 174375000, date |-> "Mar 2032",
        status |-> CheckpointStatus(currentHalvingCycle = 4, currentBlock >= 1200000)],
       [halving |-> 5, height |-> 1500000, reward |-> Frac(9375, 1000), supply |-> 177187500, date |-> "Nov 2033",
        status |-> CheckpointStatus(currentHalvingCycle = 5, currentBlock >= 1500000)],
       [halving |-> 6, height |-> 1800000, reward |-> Frac(46875, 10000), supply |-> 178593750, date |-> "Aug 2035",
        status |-> CheckpointStatus(currentHalvingCycle = 6, currentBlock >= 1800000)],
       [halving |-> 7, height |-> 2100000, reward |-> Frac(234375, 100000), supply |-> 179296875, date |-> "Apr 2037",
        status |-> CheckpointStatus(currentHalvingCycle = 7, currentBlock >= 2100000)],
       [halving |-> 8, height |-> 2400000, reward |-> Frac(1171875, 1000000), supply |-> 179296875, date |-> "Jan 2039",
        status |-> CheckpointStatus(currentHalvingCycle = 8, currentBlock >= 2400000)],
       [halving |-> 9, height |-> 2700000, reward |-> Frac(5859375, 10000000), supply |-> 179912109, date |-> "Oct 2040",
        status |-> CheckpointStatus(currentHalvingCycle = 9, currentBlock >= 2700000)],
       [halving |-> 10, height |-> 3000000, reward |-> Frac(29296875, 100000000), supply |-> 179912109, date |-> "May 2042",
        status |-> CheckpointStatus(currentHalvingCycle = 10, currentBlock >= 3000000)]
    >>

\* lines 549: findOne({}, { sort: { timestamp: -1 } }) on the network history
LatestNetworkHistory == {First(s) : s \in SortDesc(networkhistories, "timestamp")}

\* lines 683-700: the special blocks, looked up in one loop inside one try;
\* failing is the index of the lookup that rejects (0: none does)
SpecialBlocks(failing) ==
    [i \in 1 .. 3 |->
        LET tx == First(Find(txes, "blockindex", i))
        IN  [height |-> i, reward |-> 0,
             hash |-> IF (failing = 0 \/ i < failing) /\ tx # Null THEN tx.blockhash ELSE NullStr]]

\* what the node may answer to getmininginfo and to getnetworkhashps: the call
\* rejects (ok = FALSE) or gives a result
MiningInfos ==
    {[ok |-> FALSE, result |-> Null], [ok |-> TRUE, result |-> Null],
     [ok |-> TRUE, result |-> [difficulty |-> 0]], [ok |-> TRUE, result |-> [difficulty |-> 9]]}
HashRates == {[ok |-> FALSE, result |-> 0], [ok |-> TRUE, result |-> 0], [ok |-> TRUE, result |-> 4000]}

\* lines 552-571: difficulty, from the snapshot and then from getmininginfo
MiningDifficulty(latestNetworkHistory, miningInfo) ==
    LET difficulty == IF latestNetworkHistory = Null THEN 0 ELSE latestNetworkHistory.difficulty_pow
    IN  IF miningInfo.ok /\ miningInfo.result # Null /\ miningInfo.result.difficulty # 0
        THEN miningInfo.result.difficulty
        ELSE difficulty

\* lines 553-571: networkhashps, from the snapshot and then from
\* getnetworkhashps, which is called only after getmininginfo gave a result
MiningHashps(latestNetworkHistory, miningInfo, hashps) ==
    LET networkhashps == Frac(IF latestNetworkHistory = Null THEN 0 ELSE latestNetworkHistory.nethash, 1000)
    IN  IF miningInfo.ok /\ miningInfo.result # Null /\ hashps.ok /\ hashps.result # 0
        THEN Frac(hashps.result, 1000)
        ELSE networkhashps

\* getMiningStats, lines 541-717. The connection and the first two reads are
\* outside any try, and so is the use of coinStats.count.
GetMiningStats ==
    /\ Idle
    /\ \E failed \in {"none", "connect", "coinstats.findOne", "networkhistories.findOne"},
          miningInfo \in MiningInfos, hashps \in HashRates, failing \in 0 .. 3 :
         IF failed \in {"connect", "coinstats.findOne"}
         THEN Finish([op |-> "getMiningStats", outcome |-> "threw", failed |-> failed])
         ELSE IF coinstats = Null
         THEN Finish([op |-> "getMiningStats", outcome |-> "threw", failed |-> "coinStats.count"])
         ELSE IF failed # "none"
         THEN Finish([op |-> "getMiningStats", outcome |-> "threw", failed |-> failed])
         ELSE \E latestNetworkHistory \in LatestNetworkHistory :
                LET currentBlock == coinstats.count
                    currentHalvingCycle == HalvingCycle(currentBlock)
                    currentReward == Frac(blockReward, 2 ^ currentHalvingCycle)
                    nextHalvingHeight == (currentHalvingCycle + 1) * halvingInterval
                    blocksUntilHalving == nextHalvingHeight - currentBlock
                    daysUntilHalving == Frac(blocksUntilHalving * blockTime, 60 * 60 * 24)
                IN  Finish([op |-> "getMiningStats", outcome |-> "returned", failed |-> failed,
                            rpc |-> [miningInfo |-> miningInfo, hashps |-> hashps], failing |-> failing,
                            blocks |-> currentBlock,
                            difficulty |-> MiningDifficulty(latestNetworkHistory, miningInfo),
                            networkhashps |-> MiningHashps(latestNetworkHistory, miningInfo, hashps),
                            currentReward |-> currentReward,
                            nextHalvingHeight |-> nextHalvingHeight,
                            blocksUntilHalving |-> blocksUntilHalving,
                            daysUntilHalving |-> daysUntilHalving,
                            halvingSchedule |-> HalvingSchedule(currentBlock, currentHalvingCycle),
                            maxSupply |-> maxSupply, currentSupply |-> coinstats.supply,
                            blockTime |-> blockTime, retargetInterval |-> 3,
                            specialBlocks |-> SpecialBlocks(failing)])

MiningNext ==
    \/ Respond
    \/ UpdateCoinStats(ScheduleHeights)
    \/ IngestSnapshot
    \/ GetMiningStats

\* the statistics over the first blocks of the chain, where the special
\* blocks are ingested
RelaunchNext ==
    \/ Respond
    \/ IngestTx(PlainShapes)
    \/ UpdateCoinStats(0 .. HeightOf(NumHashes))
    \/ GetMiningStats

(***************************************************************************)
(* The node behind rpcCall, as far as lib/data asks it.                    *)
(***************************************************************************)
\* inputs and outputs of a raw transaction as getrawtransaction (verbose)
\* lists them; a value is in coins, with eight decimals
Coinbase == [coinbase |-> TRUE, txid |-> 0, vout |-> 0]
Spend(txid, n) == [coinbase |-> FALSE, txid |-> txid, vout |-> n]
Coins(whole, decimals) == [whole |-> whole, decimals |-> decimals]
Out(value, addresses) == [value |-> value, scriptPubKey |-> TRUE, addresses |-> addresses]
\* an output the node lists without a scriptPubKey
BareOut(value) == [value |-> value, scriptPubKey |-> FALSE, addresses |-> <<>>]

\* the transaction ids the node does not know (getrawtransaction gives an error)
Unknown == {9}

\* the raw transactions of the node, by transaction id
RawTx(txid) ==
    CASE txid = 1 -> [txid |-> 1, vin |-> <<Coinbase>>, vout |-> <<Out(Coins(5, 0), <<"X">>)>>]
      [] txid = 2 -> [txid |-> 2, vin |-> <<Spend(1, 0), Spend(1, 3)>>,
                      vout |-> <<Out(Coins(0, 300), <<"A", "B">>), Out(Coins(0, 200), <<>>)>>]
      [] txid = 3 -> [txid |-> 3, vin |-> <<Spend(9, 0)>>, vout |-> <<Out(Coins(0, 50), <<"B">>)>>]
      [] txid = 4 -> [txid |-> 4, vin |-> <<Spend(2, 1), Spend(5, 0)>>, vout |-> <<Out(Coins(1, 0), <<"A">>)>>]
      [] txid = 5 -> [txid |-> 5, vin |-> <<Coinbase>>, vout |-> <<BareOut(Coins(0, 70))>>]
      [] OTHER    -> [txid |-> txid, vin |-> <<Spend(1, 0)>>, vout |-> <<Out(Coins(0, txid), <<"A">>)>>]

\* the sets of transaction ids whose getrawtransaction call may fail during
\* one request (node busy, connection reset)
DownSets == SUBSET {1, 2, 20}

\* (a plausible slip: the divisor of the value used as the factor)
ToSatoshisByDivisor(value) == value.whole * 180000000 + value.decimals

\* lines 271, 296, 459: Math.round(value * 100000000)
ToSatoshis(value) == value.whole * 100000000 + value.decimals

\* getRawTransaction, lines 329-338: the raw transaction, or null when the
\* RPC call fails
GetRawTransaction(txid, down) ==
    IF txid \in down \/ txid \in Unknown THEN Null ELSE RawTx(txid)

\* the transactions that may wait in the node's mempool
PendingIds == 1 .. 5

\* The sync script stores a mempool entry ...
AddPending ==
    /\ res = NoResult
    /\ Len(mempool) < MaxTxs
    /\ \E t \in PendingIds :
         /\ \A i \in DOMAIN mempool : mempool[i].txid # t
         /\ mempool' = Append(mempool, [txid |-> t, size |-> 200 + t, time |-> 500 + (t \div 2), fee |-> 1])
    /\ UNCHANGED <<txes, addresstxes, blocks, networkhistories, mempoolstats, coinstats, call, res>>
    /\ UNCHANGED priceVars

\* ... and removes it when the transaction has left the mempool.
DropPending ==
    /\ res = NoResult
    /\ \E i \in DOMAIN mempool :
         mempool' = SubSeq(mempool, 1, i - 1) \o SubSeq(mempool, i + 1, Len(mempool))
    /\ UNCHANGED <<txes, addresstxes, blocks, networkhistories, mempoolstats, coinstats, call, res>>
    /\ UNCHANGED priceVars

(***************************************************************************)
(* lib/data: getTransactionById                                            *)
(***************************************************************************)
RECURSIVE ProcessInputs(_, _)
\* lines 257-290: the vin entries pushed for the inputs of the raw transaction
ProcessInputs(vin, down) ==
    IF vin = <<>> THEN <<>>
    ELSE LET input == Head(vin)
             prevTx == GetRawTransaction(input.txid, down)
             pushed ==
                 IF input.coinbase THEN <<[addresses |-> "coinbase", amount |-> 0]>>
                 ELSE IF input.txid = 0 THEN <<>>
                 \* line 268: if (prevTx && prevTx.vout && prevTx.vout[input.vout]), no else
                 ELSE IF prevTx = Null \/ input.vout + 1 > Len(prevTx.vout) THEN <<>>
                 ELSE LET prevOutput == prevTx.vout[input.vout + 1]
                      IN  \* line 270 throws on a missing scriptPubKey: the catch of line 280
                          IF ~prevOutput.scriptPubKey THEN <<[addresses |-> "unknown", amount |-> 0]>>
                          ELSE IF prevOutput.addresses # <<>>
                          THEN <<[addresses |-> prevOutput.addresses[1],
                                  amount |-> ToSatoshis(prevOutput.value)]>>
                          ELSE <<>>
         IN  pushed \o ProcessInputs(Tail(vin), down)

RECURSIVE ProcessOutputs(_)
\* lines 293-306 and 456-469: the vout entries pushed for the outputs
ProcessOutputs(vout) ==
    IF vout = <<>> THEN <<>>
    ELSE LET output == Head(vout)
         IN  (IF output.addresses # <<>>
              THEN <<[addresses |-> output.addresses[1], amount |-> ToSatoshis(output.value)]>>
              ELSE <<>>) \o ProcessOutputs(Tail(vout))

RECURSIVE OutputTotalOfAll(_)
\* (a plausible slip: the amount added outside the if)
OutputTotalOfAll(vout) ==
    IF vout = <<>> THEN 0 ELSE ToSatoshis(Head(vout).value) + OutputTotalOfAll(Tail(vout))

RECURSIVE OutputTotal(_)
\* lines 303 and 466: the amounts added up as the entries are pushed
OutputTotal(vout) ==
    IF vout = <<>> THEN 0
    ELSE (IF Head(vout).addresses # <<>> THEN ToSatoshis(Head(vout).value) ELSE 0) + OutputTotal(Tail(vout))

\* (a plausible slip: the filter left out of the query)
FindOneUnfiltered(coll, txid) == First(coll)

\* lines 231 and 238: findOne({ txid })
FindOneByTxid(coll, txid) == First(Find(coll, "txid", txid))

\* lines 315-322: the bare detail of a pending transaction
BareDetail(mempoolTx) ==
    [txid |-> mempoolTx.txid, timestamp |-> mempoolTx.time, vin |-> <<>>, vout |-> <<>>,
     total |-> 0, isPending |-> TRUE]

\* lines 241-322: the detail of a transaction found in the stored mempool
PendingDetail(mempoolTx, txid, down) ==
    LET rawTx == GetRawTransaction(txid, down)
    IN  \* line 295 throws on an output without scriptPubKey: the catch of line 310
        IF rawTx = Null \/ \E i \in DOMAIN rawTx.vout : ~rawTx.vout[i].scriptPubKey
        THEN BareDetail(mempoolTx)
        ELSE [txid |-> rawTx.txid, timestamp |-> mempoolTx.time,
              vin |-> ProcessInputs(rawTx.vin, down), vout |-> ProcessOutputs(rawTx.vout),
              total |-> OutputTotal(rawTx.vout), isPending |-> TRUE]

\* getTransactionById, lines 227-326. The connection and the two storage
\* reads are outside any try; consulted lists the sources the call has read.
GetTransactionById(txid) ==
    /\ Idle
    /\ \E failed \in {"none", "connect", "txes.findOne", "mempool.findOne"}, down \in DownSets :
         LET transaction == FindOneByTxid(txes, txid)
             mempoolTx == FindOneByTxid(mempool, txid)
         IN  IF failed \in {"connect", "txes.findOne"}
             THEN Finish([op |-> "getTransactionById", outcome |-> "threw", failed |-> failed])
             ELSE IF transaction # Null
             THEN Finish([op |-> "getTransactionById", outcome |-> "returned", failed |-> "none",
                          txid |-> txid, down |-> {}, consulted |-> {"txes"}, value |-> transaction])
             ELSE IF failed = "mempool.findOne"
             THEN Finish([op |-> "getTransactionById", outcome |-> "threw", failed |-> failed])
             ELSE IF mempoolTx = Null
             THEN Finish([op |-> "getTransactionById", outcome |-> "returned", failed |-> "none",
                          txid |-> txid, down |-> {}, consulted |-> {"txes", "mempool"}, value |-> Null])
             ELSE Finish([op |-> "getTransactionById", outcome |-> "returned", failed |-> "none",
                          txid |-> txid, down |-> down, consulted |-> {"txes", "mempool", "rpc"},
                          value |-> PendingDetail(mempoolTx, txid, down)])

TxNext ==
    \/ Respond
    \/ IngestTx(PlainShapes)
    \/ AddPending
    \/ DropPending
    \/ \E txid \in PendingIds : GetTransactionById(txid)

(***************************************************************************)
(* lib/data: getMempoolTransactions                                        *)
(***************************************************************************)
\* The sync script stores the statistics record of the mempool.
StoreMempoolStats ==
    /\ res = NoResult
    /\ mempoolstats = Null
    /\ mempoolstats' = [size |-> 2, bytes |-> 500, usage |-> 2000]
    /\ UNCHANGED <<txes, addresstxes, blocks, networkhistories, mempool, coinstats, call, res>>
    /\ UNCHANGED priceVars

\* what the node may answer to getmempoolinfo: the call rejects (ok = FALSE)
\* or gives a result
MempoolInfos ==
    {[ok |-> FALSE, result |-> Null], [ok |-> TRUE, result |-> Null],
     [ok |-> TRUE, result |-> [size |-> 0, bytes |-> 0, usage |-> 0]],
     [ok |-> TRUE, result |-> [size |-> 3, bytes |-> 700, usage |-> 2900]]}

\* what the node may answer to getrawmempool (verbose): the call rejects, or
\* gives null, or an object keyed by transaction id (its keys in order)
RawMempools ==
    {[ok |-> FALSE, result |-> Null], [ok |-> TRUE, result |-> Null]}
    \cup {[ok |-> TRUE, result |-> [keys |-> k]] :
            k \in {<<>>, <<1>>, <<2, 1>>, <<3, 5, 2>>, [i \in 1 .. 21 |-> i]}}

\* lines 423-429: the entry made of one key of the raw mempool object
RpcTransaction(txid) ==
    [txid |-> txid, size |-> 200 + txid, time |-> 500 + (txid \div 2), fee |-> 1, height |-> 7]

\* lines 401-405 and 412-416: the statistics, from storage and then from
\* getmempoolinfo (a || b || 0 skips a zero)
StoredStats == IF mempoolstats # Null THEN mempoolstats ELSE [size |-> 0, bytes |-> 0, usage |-> 0]
MempoolStats(info) ==
    IF info.ok /\ info.result # Null
    THEN [size  |-> IF info.result.size # 0 THEN info.result.size ELSE StoredStats.size,
          bytes |-> IF info.result.bytes # 0 THEN info.result.bytes ELSE StoredStats.bytes,
          usage |-> IF info.result.usage # 0 THEN info.result.usage ELSE StoredStats.usage]
    ELSE StoredStats

\* (a plausible slip: the live listing put in front of the stored one)
MergedTransactions(dbTransactions, info, rawMempool) ==
    IF info.ok /\ info.result # Null /\ rawMempool.ok /\ rawMempool.result # Null
    THEN [i \in DOMAIN rawMempool.result.keys |-> RpcTransaction(rawMempool.result.keys[i])] \o dbTransactions
    ELSE dbTransactions

\* lines 400-439: the entries to enrich. getrawmempool is called only after
\* getmempoolinfo gave a result (a null result throws at line 413).
SelectedTransactions(dbTransactions, info, rawMempool) ==
    IF info.ok /\ info.result # Null /\ rawMempool.ok /\ rawMempool.result # Null
    THEN LET rpcTransactions ==
                 [i \in DOMAIN rawMempool.result.keys |-> RpcTransaction(rawMempool.result.keys[i])]
         IN  IF Len(rpcTransactions) > 0 THEN rpcTransactions ELSE dbTransactions
    ELSE dbTransactions

\* line 444: transactions.slice(0, 20)
EnrichCap == 20

\* lines 472-488: the vin entries of the mempool view
MempoolInputs(vin) ==
    [k \in DOMAIN vin |-> IF vin[k].coinbase THEN [addresses |-> "coinbase", amount |-> 0]
                                               ELSE [addresses |-> "input", amount |-> 0]]

\* (a plausible slip: an entry whose lookup fails is skipped)
EnrichmentSkipsFailed(tx, down) ==
    LET rawTx == GetRawTransaction(tx.txid, down)
    IN  IF rawTx # Null
        THEN <<[vin |-> MempoolInputs(rawTx.vin), vout |-> ProcessOutputs(rawTx.vout),
                total |-> OutputTotal(rawTx.vout), value |-> Frac(OutputTotal(rawTx.vout), 180000000)] @@ tx>>
        ELSE <<>>

\* lines 446-518: what one entry adds to enrichedTransactions
Enrichment(tx, down) ==
    LET rawTx == GetRawTransaction(tx.txid, down)
    IN  IF rawTx # Null
        THEN <<[vin |-> MempoolInputs(rawTx.vin), vout |-> ProcessOutputs(rawTx.vout),
                total |-> OutputTotal(rawTx.vout), value |-> Frac(OutputTotal(rawTx.vout), 180000000)] @@ tx>>
        ELSE <<[vin |-> <<>>, vout |-> <<>>, total |-> 0, value |-> Frac(0, 1)] @@ tx>>

RECURSIVE EnrichAll(_, _)
\* lines 442-519: the loop over the entries
EnrichAll(transactions, down) ==
    IF transactions = <<>> THEN <<>>
    ELSE Enrichment(Head(transactions), down) \o EnrichAll(Tail(transactions), down)

\* (a plausible slip: the entries enriched without a bound)
Uncapped(transactions) == transactions

\* line 444: transactions.slice(0, 20)
Capped(transactions) == SubSeq(transactions, 1, Min(EnrichCap, Len(transactions)))

\* one call of rpcCall (lines 12-30): a single axios.post, its error rethrown
RpcCall(method, txid) == [method |-> method, txid |-> txid]

\* (a plausible slip: the previous transaction of every input looked up, as
\* getTransactionById does)
EnrichmentCallsChasingInputs(tx, down) ==
    LET rawTx == GetRawTransaction(tx.txid, down)
    IN  <<RpcCall("getrawtransaction", tx.txid)>>
          \o (IF rawTx = Null THEN <<>>
              ELSE LET spent == SelectSeq(rawTx.vin, LAMBDA input : ~input.coinbase)
                   IN  [k \in DOMAIN spent |-> RpcCall("getrawtransaction", spent[k].txid)])

\* lines 448 and 329-338: the RPC calls made for one entry: the lookup of its
\* raw transaction by getRawTransaction, which catches a failure
EnrichmentCalls(tx, down) == <<RpcCall("getrawtransaction", tx.txid)>>

RECURSIVE EnrichAllCalls(_, _)
\* the RPC calls of the loop of lines 444-519
EnrichAllCalls(transactions, down) ==
    IF transactions = <<>> THEN <<>>
    ELSE EnrichmentCalls(Head(transactions), down) \o EnrichAllCalls(Tail(transactions), down)

\* getMempoolTransactions, lines 392-538. The connection is outside the try;
\* rpcCalls lists the RPC calls the request has made, in order.
GetMempoolTransactions ==
    /\ Idle
    /\ \E failed \in {"none", "connect", "mempool.find", "mempoolstats.findOne"},
          info \in MempoolInfos, rawMempool \in RawMempools, down \in DownSets :
         IF failed = "connect"
         THEN Finish([op |-> "getMempoolTransactions", outcome |-> "threw", failed |-> failed])
         ELSE IF failed # "none"
         THEN Finish([op |-> "getMempoolTransactions", outcome |-> "returned", failed |-> failed,
                      transactions |-> <<>>, stats |-> [size |-> 0, bytes |-> 0, usage |-> 0]])
         ELSE \E dbTransactions \in SortDesc(mempool, "time") :
                LET transactions == SelectedTransactions(dbTransactions, info, rawMempool)
                    capped == Capped(transactions)
                IN  Finish([op |-> "getMempoolTransactions", outcome |-> "returned", failed |-> failed,
                            info |-> info, rawMempool |-> rawMempool, down |-> down,
                            rpcCalls |-> <<RpcCall("getmempoolinfo", 0)>>
                                           \o (IF info.ok /\ info.result # Null
                                               THEN <<RpcCall("getrawmempool", 0)>> ELSE <<>>)
                                           \o EnrichAllCalls(capped, down),
                            transactions |-> EnrichAll(capped, down),
                            stats |-> MempoolStats(info)])

PoolNext ==
    \/ Respond
    \/ AddPending
    \/ DropPending
    \/ StoreMempoolStats
    \/ GetMempoolTransactions

(***************************************************************************)
(* lib/data: getNetworkStats                                               *)
(***************************************************************************)
\* After a reorganisation of the chain the collector stores a snapshot of a
\* block below its last one; the snapshot's timestamp is the time it was
\* written, later than that of every stored snapshot.
IngestSnapshotAfterReorg ==
    /\ res = NoResult
    /\ networkhistories # <<>>
    /\ Len(networkhistories) < MaxSnaps
    /\ \E b \in 1 .. HeightOf(NumHashes), d \in Difficulties :
         LET last == networkhistories[Len(networkhistories)]
         IN  /\ b < last.blockindex
             /\ networkhistories' = Append(networkhistories,
                    [blockindex |-> b, timestamp |-> last.timestamp + 10, difficulty_pow |-> d,
                     nethash |-> 1000 * d])
    /\ UNCHANGED <<txes, addresstxes, blocks, call, res>>
    /\ UNCHANGED priceVars
    /\ UNCHANGED poolVars

\* lines 42-50 and 68-76: the fallback statistics
FallbackStats ==
    [count |-> 0, supply |-> 0, txes |-> 0, connections |-> 0, nethash |-> Frac(0, 1),
     difficulty_pow |-> 0, difficulty_pos |-> 0]

\* getNetworkStats, lines 33-78: every failure, and an absent CoinStats
\* record, give the fallback statistics
GetNetworkStats ==
    /\ Idle
    /\ \E failed \in {"none", "connect", "coinstats.findOne", "networkhistories.findOne"} :
         IF failed \in {"connect", "coinstats.findOne"} \/ coinstats = Null
         THEN Finish([op |-> "getNetworkStats", outcome |-> "returned",
                      failed |-> IF failed = "networkhistories.findOne" THEN "none" ELSE failed,
                      value |-> FallbackStats])
         ELSE IF failed = "networkhistories.findOne"
         THEN Finish([op |-> "getNetworkStats", outcome |-> "returned", failed |-> failed,
                      value |-> FallbackStats])
         ELSE \E latestNetworkHistory \in LatestNetworkHistory :
                Finish([op |-> "getNetworkStats", outcome |-> "returned", failed |-> failed,
                        value |-> [count |-> coinstats.count, supply |-> coinstats.supply,
                                   txes |-> 0, connections |-> 0,
                                   nethash |-> Frac(IF latestNetworkHistory = Null THEN 0
                                                    ELSE latestNetworkHistory.nethash, 1000),
                                   difficulty_pow |-> IF latestNetworkHistory = Null THEN 0
                                                      ELSE latestNetworkHistory.difficulty_pow,
                                   difficulty_pos |-> 0]])

NetworkNext ==
    \/ Respond
    \/ UpdateCoinStats(0 .. HeightOf(NumHashes))
    \/ IngestSnapshot
    \/ IngestSnapshotAfterReorg
    \/ GetNetworkStats
    \/ GetMiningStats

(***************************************************************************)
(* lib/data: getDifficultyHistory                                          *)
(***************************************************************************)
\* the limits the chart asks for: one point, a few points, and the default of 50
HistoryLimits == {1, MaxLimit, 50}

\* (a plausible slip: the listing left in the order it was read, latest first)
ArraySortAsRead(list, field) == list

RECURSIVE ArraySortAsc(_, _)
\* lines 860, 874, 916: Array.prototype.sort((a, b) => a.field - b.field),
\* a stable sort
ArraySortAsc(list, field) ==
    IF list = <<>> THEN <<>>
    ELSE LET d == list[Len(list)]
             rest == ArraySortAsc(SubSeq(list, 1, Len(list) - 1), field)
         IN  SelectSeq(rest, LAMBDA e : e[field] <= d[field]) \o <<d>>
               \o SelectSeq(rest, LAMBDA e : e[field] > d[field])

\* lines 861-865: the point of a snapshot
HistoryPoint(history) ==
    [blockHeight |-> history.blockindex, difficulty |-> history.difficulty_pow,
     timestamp |-> history.timestamp]

\* lines 875-879: the point of an entry of the block store
BlockPoint(block) ==
    [blockHeight |-> block.height, difficulty |-> block.difficulty, timestamp |-> block.timestamp]

\* (a plausible slip: a height without a transaction filled with an empty point)
ReconstructedPointFilled(height, tx, networkData) ==
    <<[blockHeight |-> height,
       difficulty |-> IF networkData = Null THEN 0 ELSE networkData.difficulty_pow,
       timestamp |-> IF tx = Null THEN 0 ELSE tx.timestamp]>>

\* lines 901-913: the point pushed for a height, none when the height has no
\* transaction
ReconstructedPoint(height, tx, networkData) ==
    IF tx # Null
    THEN <<[blockHeight |-> height,
            difficulty |-> IF networkData = Null THEN 0 ELSE networkData.difficulty_pow,
            timestamp |-> tx.timestamp]>>
    ELSE <<>>

\* what getDifficultyHistory hands to its caller; read is the length the
\* collections had at the reads of lines 850-883, latestHeight the height the
\* reconstruction started from (0 when there was none) and lookups, for each
\* height looked up, the length the network history had at its lookup
HistoryResult(limit, failed, value, read, latestHeight, lookups) ==
    [op |-> "getDifficultyHistory", outcome |-> "returned", failed |-> failed, limit |-> limit,
     value |-> value, read |-> read, latestHeight |-> latestHeight, lookups |-> lookups]

\* getDifficultyHistory, lines 845-898: the connection (outside the try), the
\* reads of the three sources, and the heights to reconstruct; a read that
\* is not reached cannot fail
DifficultyHistoryRead(limit) ==
    /\ Idle
    /\ \E failed \in {"none", "connect", "networkhistories.find"}
                      \cup (IF networkhistories = <<>> THEN {"blocks.find"} ELSE {})
                      \cup (IF networkhistories = <<>> /\ blocks = <<>> THEN {"txes.find"} ELSE {}) :
         LET read == [networkhistories |-> Len(networkhistories), blocks |-> Len(blocks),
                      txes |-> Len(txes)]
         IN  IF failed = "connect"
             THEN Finish([op |-> "getDifficultyHistory", outcome |-> "threw", failed |-> failed])
             ELSE IF failed = "networkhistories.find"
             THEN Finish(HistoryResult(limit, failed, <<>>, read, 0, <<>>))
             ELSE IF networkhistories # <<>>
             THEN \E sorted \in SortDesc(networkhistories, "blockindex") :
                    LET networkHistory == SkipLimit(sorted, 0, limit)
                        charted == ArraySortAsc(networkHistory, "blockindex")
                    IN  Finish(HistoryResult(limit, "none",
                                             [i \in DOMAIN charted |-> HistoryPoint(charted[i])],
                                             read, 0, <<>>))
             ELSE IF failed = "blocks.find"
             THEN Finish(HistoryResult(limit, failed, <<>>, read, 0, <<>>))
             ELSE IF blocks # <<>>
             THEN \E sorted \in SortDesc(blocks, "height") :
                    LET latestBlocks == SkipLimit(sorted, 0, limit)
                        charted == ArraySortAsc(latestBlocks, "height")
                    IN  Finish(HistoryResult(limit, "none",
                                             [i \in DOMAIN charted |-> BlockPoint(charted[i])],
                                             read, 0, <<>>))
             ELSE IF failed = "txes.find"
             THEN Finish(HistoryResult(limit, failed, <<>>, read, 0, <<>>))
             ELSE \E sorted \in SortDesc(txes, "blockindex") :
                    LET latestTxs == SkipLimit(sorted, 0, 1)
                    IN  IF latestTxs = <<>>
                        THEN Finish(HistoryResult(limit, "none", <<>>, read, 0, <<>>))
                        ELSE LET latestHeight == latestTxs[1].blockindex
                                 startHeight == Max(1, latestHeight - limit + 1)
                                 blockHeights ==
                                     SelectSeq([i \in 1 .. Min(limit, latestHeight) |-> startHeight + (i - 1)],
                                               LAMBDA height : height <= latestHeight)
                             IN  IF blockHeights = <<>>
                                 THEN Finish(HistoryResult(limit, "none", <<>>, read, latestHeight, <<>>))
                                 ELSE Continue([op |-> "getDifficultyHistory", limit |-> limit,
                                                read |-> read, latestHeight |-> latestHeight,
                                                blockHeights |-> blockHeights,
                                                difficultyData |-> <<>>, lookups |-> <<>>])

\* getDifficultyHistory, lines 900-920: the lookups of the next height, and
\* the result after those of the last one
DifficultyHistoryLookup ==
    /\ call.op = "getDifficultyHistory"
    /\ res = NoResult
    /\ \E failed \in {"none", "txes.findOne", "networkhistories.findOne"} :
         LET height == Head(call.blockHeights)
             tx == First(Find(txes, "blockindex", height))
         IN  IF failed = "txes.findOne" \/ (failed = "networkhistories.findOne" /\ tx # Null)
             THEN Finish(HistoryResult(call.limit, failed, <<>>, call.read, call.latestHeight,
                                       call.lookups))
             ELSE \E networkData \in SnapshotAtOrBelow(height) :
                    LET difficultyData == call.difficultyData \o ReconstructedPoint(height, tx, networkData)
                        lookups == Append(call.lookups,
                                          [height |-> height, seen |-> Len(networkhistories)])
                    IN  IF Tail(call.blockHeights) = <<>>
                        THEN Finish(HistoryResult(call.limit, "none",
                                                  ArraySortAsc(difficultyData, "blockHeight"),
                                                  call.read, call.latestHeight, lookups))
                        ELSE Continue([call EXCEPT !.blockHeights = Tail(call.blockHeights),
                                                   !.difficultyData = difficultyData,
                                                   !.lookups = lookups])

\* The collector appends a snapshot while no request is between two reads:
\* the sources as one request finds them.
CollectSnapshot == call = NoCall /\ IngestSnapshot

HistoryNext ==
    \/ Respond
    \/ IngestTx(PlainShapes)
    \/ IngestBlock
    \/ CollectSnapshot
    \/ \E limit \in HistoryLimits : DifficultyHistoryRead(limit)
    \/ DifficultyHistoryLookup

ReconstructNext ==
    \/ Respond
    \/ IngestTx(PlainShapes)
    \/ IngestSnapshot
    \/ \E limit \in HistoryLimits : DifficultyHistoryRead(limit)
    \/ DifficultyHistoryLookup

NextHashNext ==
    \/ Respond
    \/ IngestTx(PlainShapes)
    \/ IngestBlock
    \/ \E currentHeight \in 0 .. HeightOf(NumHashes) : GetNextBlockHash(currentHeight)

BlockNext ==
    \/ Respond
    \/ IngestTx(PlainShapes)
    \/ IngestSnapshot
    \/ \E h \in Hashes : GetBlockByHash(HashName(h))
    \/ \E h \in Hashes : GetTransactionsByBlockHash(HashName(h))

PagingNext ==
    \/ Respond
    \/ IngestTx(PlainShapes)
    \/ \E page \in Pages, limit \in Limits : PaginatedBlocksCount(page, limit)
    \/ PaginatedBlocksRead
    \/ \E page \in Pages, limit \in Limits : PaginatedTxCount(page, limit)
    \/ PaginatedTxRead

AddressNext ==
    \/ Respond
    \/ IngestIndexedTx
    \/ \E address \in Addrs, page \in Pages, limit \in Limits :
         GetPaginatedAddressTransactions(address, page, limit)

DataInit ==
    /\ txes = <<>>
    /\ addresstxes = <<>>
    /\ blocks = <<>>
    /\ networkhistories = <<>>
    /\ mempool = <<>>
    /\ mempoolstats = Null
    /\ coinstats = Null
    /\ call = NoCall
    /\ res = NoResult

Init == PriceInit /\ DataInit

SpecPrice == Init /\ [][PriceNext]_vars

SpecBlocks == Init /\ [][BlocksNext]_vars

SpecPaging == Init /\ [][PagingNext]_vars

SpecAddress == Init /\ [][AddressNext]_vars

SpecNextHash == Init /\ [][NextHashNext]_vars

SpecBlock == Init /\ [][BlockNext]_vars

SpecMining == Init /\ [][MiningNext]_vars

SpecTx == Init /\ [][TxNext]_vars

SpecRelaunch == Init /\ [][RelaunchNext]_vars

SpecNetwork == Init /\ [][NetworkNext]_vars

SpecHistory == Init /\ [][HistoryNext]_vars

SpecReconstruct == Init /\ [][ReconstructNext]_vars

SpecPool == Init /\ [][PoolNext]_vars

(***************************************************************************)
(* Claims about the price cache                                            *)
(***************************************************************************)
\* the fields of request c
Req(c) == <<pc[c], ret[c], path[c], attempts[c]>>

\* a step of request c that starts a call (a repeated cache hit that changes
\* nothing is a stuttering step, and satisfies every formula below)
CallStep(c) == pc[c] = "idle" /\ Req(c)' # Req(c)

\* a step in which the fetch of request c, already started, settles and the
\* call returns
ReturnStep(c) == pc[c] \in {"fetch", "json"} /\ pc'[c] = "idle"

TwentyMinutes == 1200000

\* C1: a call of getADVCPrice made while the cache holds an entry younger than
\* 20 minutes returns the cached price, starts no fetch and leaves the entry
\* as it is.
C1_FreshEntryServed ==
    [][\A c \in Callers :
         (CallStep(c) /\ priceCache # Null /\ now - priceCache.timestamp < TwentyMinutes)
            => /\ pc'[c] = "idle"
               /\ attempts'[c] = 0
               /\ ret'[c] = priceCache.price
               /\ priceCache' = priceCache]_vars

\* a request was served from an entry between 10 and 20 minutes old
C1_Witness ==
    \E c \in Callers :
        /\ path[c] = "hit" /\ pc[c] = "idle" /\ priceCache # Null
        /\ ret[c] = priceCache.price
        /\ now - priceCache.timestamp = TickMs

\* C2: a call made while the entry is 20 minutes old or older starts a refresh
\* fetch; when the fetch succeeds the entry becomes the new price with the
\* current time as timestamp (a fresh entry) and the new price is returned;
\* when it fails the entry's price is returned and the entry keeps its price
\* and timestamp.
C2_StaleRefresh ==
    [][\A c \in Callers :
         /\ (CallStep(c) /\ priceCache # Null /\ now - priceCache.timestamp >= TwentyMinutes)
               => (pc'[c] = "fetch" /\ attempts'[c] = 1 /\ priceCache' = priceCache)
         /\ (ReturnStep(c) /\ priceCache # Null)
               => \/ /\ priceCache' # priceCache
                     /\ priceCache'.timestamp = now
                     /\ now' - priceCache'.timestamp < TwentyMinutes
                     /\ ret'[c] = priceCache'.price
                     /\ ret'[c] \in {<<"1", ".", "2", "3", "4", "5", "6", "0">>,
                                      <<"1", ".", "2", "3", "4", "5", "6", "2">>,
                                      <<"0", ".", "5", "0", "0", "0", "0", "0">>}
                  \/ /\ priceCache' = priceCache
                     /\ ret'[c] = priceCache.price]_vars

\* a refresh of a stale entry failed, the stale price was returned and the
\* entry is still the stale one
C2_Witness ==
    \E c \in Callers :
        /\ path[c] = "stale" /\ pc[c] = "idle" /\ priceCache # Null
        /\ ret[c] = priceCache.price
        /\ now - priceCache.timestamp >= TwentyMinutes

\* C3: when the cache is empty and the fetch fails, the call returns
\* "0.000000" (a value, not an error) and the cache stays empty.
C3_EmptyFailureDefault ==
    [][\A c \in Callers :
         (ReturnStep(c) /\ priceCache = Null /\ path'[c] # "fresh")
            => /\ ret'[c] = <<"0", ".", "0", "0", "0", "0", "0", "0">>
               /\ priceCache' = Null]_vars

\* a call returned the default while the cache is empty
C3_Witness ==
    \E c \in Callers :
        path[c] = "default" /\ pc[c] = "idle" /\ priceCache = Null /\ ret[c] = DefaultPrice

\* a step in which the fetch of request c succeeds: the body gave a numeric
\* price and the call returns it
SuccessStep(c) == pc[c] = "json" /\ pc'[c] = "idle" /\ path'[c] = "fresh"

\* C23: under any interleaving of calls suspended at their fetch, the slot
\* changes only when a fetch succeeds, and then to the pair of that fetch's
\* price and the time of its completion, both written in the same step; so
\* the slot holds the pair of the successful fetch that completed last, and
\* a fetch that fails leaves the slot as it is.
C23_PairWrittenTogether ==
    [][/\ \A c \in Callers :
            SuccessStep(c) => priceCache' = [price |-> ret'[c], timestamp |-> now]
       /\ (\A c \in Callers : ~SuccessStep(c)) => priceCache' = priceCache
       /\ \A c \in Callers :
            (ReturnStep(c) /\ ~SuccessStep(c)) => priceCache' = priceCache]_vars

\* a fetch succeeded and wrote its pair while another request is still
\* suspended at its own fetch, started before that pair was in the slot
C23_Witness ==
    \E c, d \in Callers :
        /\ c # d
        /\ pc[c] = "json" /\ attempts[c] = 1
        /\ pc[d] = "idle" /\ path[d] = "fresh"
        /\ priceCache = [price |-> ret[d], timestamp |-> now]
        /\ now > 0

\* C30: once the slot holds an entry it is never empty again, its timestamp
\* never decreases, and every call that returns afterwards returns the price
\* of the entry in the slot, stored by a successful fetch, never the default
\* of a failed fetch.
C30_NeverEmptyAgain ==
    [][priceCache # Null =>
         /\ priceCache' # Null
         /\ priceCache'.timestamp >= priceCache.timestamp
         /\ \A c \in Callers :
              (Req(c)' # Req(c) /\ pc'[c] = "idle")
                 => /\ ret'[c] = priceCache'.price
                    /\ ret'[c] # <<"0", ".", "0", "0", "0", "0", "0", "0">>]_vars

\* the refresh of a stale entry failed while the slot held an entry: the
\* stored price came back and the entry is still there
C30_Witness ==
    \E c \in Callers :
        /\ path[c] = "stale" /\ pc[c] = "idle" /\ attempts[c] = 1
        /\ priceCache # Null /\ ret[c] = priceCache.price
        /\ \E d \in Callers : d # c /\ path[d] = "fresh" /\ ret[d] # ret[c]

(***************************************************************************)
(* Claims about the block aggregation                                      *)
(***************************************************************************)
\* a block listing came back from the aggregation (no storage failure)
Listed ==
    /\ res.op \in {"getLatestBlocks", "getPaginatedBlocks"}
    /\ res.outcome = "returned"
    /\ res.failed = "none"

\* the TransactionRecords of the log that carry blockhash h
GroupMembers(h) == {i \in DOMAIN txes : txes[i].blockhash = h}

\* those of them whose first input carries the coinbase marker
CoinbaseMembers(h) ==
    {i \in GroupMembers(h) : txes[i].vin # <<>> /\ txes[i].vin[1].addresses = "coinbase"}

\* C4: the listing derives exactly one block for each blockhash of the log
\* (none twice, and as many as the page holds of the hashes present), and the
\* block's txCount is the number of TransactionRecords with that blockhash.
C4_OneBlockPerHash ==
    Listed =>
        LET present == {txes[i].blockhash : i \in DOMAIN txes}
        IN  /\ \A i \in DOMAIN res.blocks :
                 /\ res.blocks[i].hash \in present
                 /\ res.blocks[i].txCount = Cardinality(GroupMembers(res.blocks[i].hash))
            /\ \A i, j \in DOMAIN res.blocks : i # j => res.blocks[i].hash # res.blocks[j].hash
            /\ Len(res.blocks) = Min(res.limit, Max(0, Cardinality(present) - res.skip))

\* a page of two blocks, one of them derived from two TransactionRecords
C4_Witness ==
    /\ Listed /\ res.op = "getPaginatedBlocks"
    /\ Len(res.blocks) = 2
    /\ \E i \in DOMAIN res.blocks : res.blocks[i].txCount = 2

\* C5 (as claimed): minedBy is the first output address of a coinbase-marked
\* transaction of the group, and is null if and only if the group has no
\* coinbase-marked transaction.
C5_MinedByNullIffNoCoinbase ==
    Listed =>
        \A k \in DOMAIN res.blocks :
            LET b == res.blocks[k]
                cb == CoinbaseMembers(b.hash)
            IN  /\ (b.minedBy = NullStr) <=> (cb = {})
                /\ cb # {} => \E i \in cb : txes[i].vout # <<>> /\ b.minedBy = txes[i].vout[1].addresses

\* C5 (amended): minedBy is null or the first output address of a
\* coinbase-marked transaction of the group; it is null when the group has no
\* coinbase-marked transaction, and otherwise only when a coinbase-marked
\* transaction of the group has no outputs.
C5_MinedByCoinbaseOutput ==
    Listed =>
        \A k \in DOMAIN res.blocks :
            LET b == res.blocks[k]
                cb == CoinbaseMembers(b.hash)
            IN  /\ cb = {} => b.minedBy = NullStr
                /\ b.minedBy # NullStr => \E i \in cb : txes[i].vout # <<>> /\ b.minedBy = txes[i].vout[1].addresses
                /\ b.minedBy = NullStr => (cb = {} \/ \E i \in cb : txes[i].vout = <<>>)

\* a block mined by A whose group holds two coinbase-marked transactions, one
\* of them without outputs
C5_Witness ==
    /\ Listed
    /\ \E k \in DOMAIN res.blocks :
         /\ res.blocks[k].minedBy = "A"
         /\ Cardinality(CoinbaseMembers(res.blocks[k].hash)) = 2
         /\ \E i \in CoinbaseMembers(res.blocks[k].hash) : txes[i].vout = <<>>

(***************************************************************************)
(* Claims about pagination                                                 *)
(***************************************************************************)
\* a paginated operation handed a result to its caller
Paginated ==
    /\ res.op \in {"getPaginatedBlocks", "getPaginatedTransactions", "getPaginatedAddressTransactions"}
    /\ res.outcome = "returned"

\* the list of a paginated result
Items(r) == IF r.op = "getPaginatedBlocks" THEN r.blocks ELSE r.transactions

\* ceil(n / d) as the least number of pages of d items that hold n items
PagesFor(n, d) == CHOOSE k \in 0 .. n : k * d >= n /\ (k = 0 \/ (k - 1) * d < n)

\* C6 (as claimed): every result of the three paginated operations, the one
\* returned after a failed storage read included, has totalPages =
\* ceil(totalItems / limit) and at most limit items.
C6_TotalPagesIsCeil ==
    Paginated =>
        /\ res.totalPages = PagesFor(res.totalItems, res.limit)
        /\ Len(Items(res)) <= res.limit

IndexOf(a) == {i \in DOMAIN addresstxes : addresstxes[i].a_id = a}

\* the transaction log has the transaction of an index record
HasTransaction(r) == \E i \in DOMAIN txes : txes[i].txid = r.txid

\* C8: getPaginatedAddressTransactions reads the requested page of the
\* address's index records in blockindex-descending order, leaves out the
\* records of the page whose txid matches no TransactionRecord, returns the
\* others in the same order with the timestamp of their TransactionRecord,
\* and reports as totalItems the number of index records of the address,
\* whether or not records were left out.
C8_AddressJoin ==
    (Paginated /\ res.op = "getPaginatedAddressTransactions") =>
        LET idx == IndexOf(res.address)
            page == res.addressTxs
            out == res.transactions
            Above(b) == Cardinality({i \in idx : addresstxes[i].blockindex > b})
            NotBelow(b) == Cardinality({i \in idx : addresstxes[i].blockindex >= b})
        IN  /\ res.totalItems = Cardinality(idx)
            \* the page is the requested slice of the descending listing
            /\ Len(page) = Min(res.limit, Max(0, Cardinality(idx) - res.skip))
            /\ \A m \in DOMAIN page :
                 /\ \E i \in idx : addresstxes[i] = page[m]
                 /\ Above(page[m].blockindex) <= res.skip + m - 1
                 /\ NotBelow(page[m].blockindex) >= res.skip + m
            /\ \A m, n \in DOMAIN page : m # n => page[m] # page[n]
            \* the records returned are those of the page that have a transaction
            /\ Len(out) = Cardinality({m \in DOMAIN page : HasTransaction(page[m])})
            /\ \A m \in DOMAIN page :
                 HasTransaction(page[m]) <=>
                    \E k \in DOMAIN out :
                        /\ [a_id |-> out[k].a_id, txid |-> out[k].txid, blockindex |-> out[k].blockindex] = page[m]
                        /\ \E i \in DOMAIN txes : txes[i].txid = out[k].txid /\ txes[i].timestamp = out[k].timestamp
            /\ \A k \in DOMAIN out : \A l \in DOMAIN out : k < l => out[k].blockindex >= out[l].blockindex

\* a page of two index records of which one has no transaction: one record is
\* returned and totalItems is still 2
C8_Witness ==
    /\ Paginated /\ res.op = "getPaginatedAddressTransactions"
    /\ Len(res.addressTxs) = 2 /\ Len(res.transactions) = 1 /\ res.totalItems = 2
    /\ res.addressTxs[1].blockindex > res.addressTxs[2].blockindex

(***************************************************************************)
(* Claims about getNextBlockHash and getBlockByHash                        *)
(***************************************************************************)
\* C9: getNextBlockHash(h) returns the hash the block store records for
\* height h+1 when it has one; otherwise the blockhash of a TransactionRecord
\* of height h+1 with the earliest timestamp; null when neither source has
\* the height; and null when a storage read fails.
C9_NextBlockHash ==
    res.op = "getNextBlockHash" =>
        LET next == res.currentHeight + 1
            inStore == {i \in DOMAIN blocks : blocks[i].height = next}
            inLog == {i \in DOMAIN txes : txes[i].blockindex = next}
        IN  /\ res.outcome = "returned"
            /\ res.failed # "none" => res.value = NullStr
            /\ (res.failed = "none" /\ inStore # {}) =>
                   \E i \in inStore : res.value = blocks[i].hash
            /\ (res.failed = "none" /\ inStore = {} /\ inLog # {}) =>
                   \E i \in inLog :
                       /\ \A j \in inLog : txes[i].timestamp <= txes[j].timestamp
                       /\ res.value = txes[i].blockhash
            /\ (res.failed = "none" /\ inStore = {} /\ inLog = {}) => res.value = NullStr

\* the block store has nothing at the height, the log has the two blocks of
\* the fork, and the one mined first is returned
C9_Witness ==
    /\ res.op = "getNextBlockHash" /\ res.failed = "none"
    /\ res.currentHeight = 1 /\ res.value = "h3"
    /\ \A i \in DOMAIN blocks : blocks[i].height # 2
    /\ \E i \in DOMAIN txes : txes[i].blockhash = "h2"

\* C10: for a hash with a TransactionRecord, getBlockByHash returns a block
\* whose previousblockhash is the blockhash of a TransactionRecord of height -
\* 1 (null when the log has none) and whose difficulty is the difficulty_pow
\* of a snapshot with the greatest blockindex <= height (0 when there is
\* none); for a hash without TransactionRecord it returns null.
C10_BlockByHash ==
    (res.op = "getBlockByHash" /\ res.outcome = "returned") =>
        LET members == GroupMembers(res.hash)
        IN  IF members = {} THEN res.value = Null
            ELSE LET b == res.value
                     before == {i \in DOMAIN txes : txes[i].blockindex = b.height - 1}
                     snaps == {i \in DOMAIN networkhistories : networkhistories[i].blockindex <= b.height}
                 IN  /\ b # Null
                     /\ b.hash = res.hash
                     /\ \A i \in members : txes[i].blockindex = b.height
                     /\ b.txCount = Cardinality(members)
                     /\ before = {} => b.previousblockhash = NullStr
                     /\ before # {} => \E i \in before : b.previousblockhash = txes[i].blockhash
                     /\ snaps = {} => b.difficulty = 0
                     /\ snaps # {} =>
                           \E i \in snaps :
                               /\ \A j \in snaps : networkhistories[i].blockindex >= networkhistories[j].blockindex
                               /\ b.difficulty = networkhistories[i].difficulty_pow

\* block h1 of height 1 with a later snapshot of another difficulty in store:
\* the block has the difficulty of the snapshot of its height and no previous
\* block
C10_Witness ==
    /\ res.op = "getBlockByHash" /\ res.outcome = "returned" /\ res.value # Null
    /\ res.value.height = 1 /\ res.value.previousblockhash = NullStr
    /\ Len(networkhistories) = 2
    /\ networkhistories[1].blockindex = 1 /\ networkhistories[2].blockindex = 2
    /\ networkhistories[1].difficulty_pow # networkhistories[2].difficulty_pow
    /\ res.value.difficulty = networkhistories[1].difficulty_pow

(***************************************************************************)
(* Claims about failures                                                   *)
(***************************************************************************)
\* the operations of the block aggregator
BlockOps ==
    {"getPaginatedBlocks", "getLatestBlocks", "getBlockByHash", "getNextBlockHash",
     "getTransactionsByBlockHash"}

\* C11: a block operation that meets a failure of the storage connection or
\* of a storage read returns to its caller (an empty list or null); the error
\* is never propagated.
C11_BlockOpsNeverThrow ==
    res.op \in BlockOps => res.outcome = "returned"

\* the view operations outside the block aggregator
ViewOps ==
    {"getTransactionById", "getAddressTransactions", "getPaginatedAddressTransactions", "getRichList",
     "getPaginatedTransactions", "getMempoolTransactions", "getMiningStats", "getDifficultyHistory",
     "getNetworkStats", "getPeerInfo"}

\* C12: a view operation outside the block aggregator returns a value and
\* raises no error, whatever fails in the storage or the RPC and whatever
\* record is absent (an absent CoinStats record included).
C12_ViewOpsNeverThrow ==
    res.op \in ViewOps => res.outcome = "returned"

(***************************************************************************)
(* Claims about the halving schedule                                       *)
(***************************************************************************)
\* getMiningStats handed its statistics to the caller
MiningReturned == res.op = "getMiningStats" /\ res.outcome = "returned"

\* the cycle of height h: the c with c * 300000 <= h < (c + 1) * 300000
CycleOf(h) == CHOOSE c \in 0 .. MaxCycle + 1 : c * 300000 <= h /\ h < (c + 1) * 300000

\* C19: for the current height h, cycle = floor(h / 300000), currentReward =
\* 300 / 2^cycle, nextHalvingHeight = (cycle + 1) * 300000 and
\* blocksUntilHalving = nextHalvingHeight - h, between 1 and 300000; h = 0
\* gives 300 and 300000, h = 300000 gives 150, h = 450000 gives 150 and 150000.
C19_HalvingArithmetic ==
    MiningReturned =>
        LET h == coinstats.count
            cycle == CycleOf(h)
        IN  /\ res.blocks = h
            /\ res.currentReward.num * (2 ^ cycle) = 300 * res.currentReward.den
            /\ res.nextHalvingHeight = (cycle + 1) * 300000
            /\ res.blocksUntilHalving = res.nextHalvingHeight - h
            /\ 1 <= res.blocksUntilHalving /\ res.blocksUntilHalving <= 300000
            /\ res.nextHalvingHeight > h
            /\ h = 0 => Reduced(res.currentReward) = Frac(300, 1) /\ res.nextHalvingHeight = 300000
            /\ h = 300000 => Reduced(res.currentReward) = Frac(150, 1)
            /\ h = 450000 => Reduced(res.currentReward) = Frac(150, 1) /\ res.blocksUntilHalving = 150000

\* the statistics at height 450000, half a cycle before the second halving
C19_Witness ==
    /\ MiningReturned
    /\ res.blocks = 450000
    /\ res.blocksUntilHalving = 150000
    /\ Reduced(res.currentReward) = Frac(150, 1)

\* C20: for a cycle of at most 10 exactly one checkpoint is "active", the one
\* whose index is the cycle and whose reward is currentReward; the checkpoints
\* below it are "past" and those above it "future". For a cycle above 10 every
\* checkpoint is "past".
C20_OneActiveCheckpoint ==
    MiningReturned =>
        LET h == coinstats.count
            cycle == CycleOf(h)
            table == res.halvingSchedule
            active == {i \in DOMAIN table : table[i].status = "active"}
        IN  IF cycle <= 10
            THEN /\ Cardinality(active) = 1
                 /\ \A i \in active :
                      /\ table[i].halving = cycle
                      /\ Reduced(table[i].reward) = Reduced(res.currentReward)
                      /\ \A j \in DOMAIN table :
                           /\ table[j].height < table[i].height => table[j].status = "past"
                           /\ table[j].height > table[i].height => table[j].status = "future"
            ELSE \A j \in DOMAIN table : table[j].status = "past"

\* the table in the middle of cycle 3: three checkpoints past, one active
\* with reward 37.5, seven to come
C20_Witness ==
    /\ MiningReturned
    /\ res.blocks = 1050000
    /\ res.halvingSchedule[4].status = "active"
    /\ Reduced(res.halvingSchedule[4].reward) = Frac(75, 2)
    /\ Cardinality({i \in DOMAIN res.halvingSchedule : res.halvingSchedule[i].status = "past"}) = 3
    /\ Cardinality({i \in DOMAIN res.halvingSchedule : res.halvingSchedule[i].status = "future"}) = 7

(***************************************************************************)
(* Claims about the transaction detail                                     *)
(***************************************************************************)
\* getTransactionById handed a value to its caller
DetailReturned == res.op = "getTransactionById" /\ res.outcome = "returned"

\* the call resolved a pending transaction
PendingReturned == DetailReturned /\ "rpc" \in res.consulted

\* C16: the confirmed TransactionRecord is returned whenever one exists, with
\* neither the mempool nor the RPC consulted; otherwise a stored mempool entry
\* gives a detail with isPending = true; null is returned only when the txid
\* is in neither.
C16_ResolutionOrder ==
    DetailReturned =>
        LET confirmed == {i \in DOMAIN txes : txes[i].txid = res.txid}
            pending == {i \in DOMAIN mempool : mempool[i].txid = res.txid}
        IN  /\ confirmed # {} =>
                 /\ \E i \in confirmed : res.value = txes[i]
                 /\ res.consulted = {"txes"}
            /\ confirmed = {} /\ pending # {} =>
                 /\ res.value # Null
                 /\ res.value.isPending = TRUE
                 /\ res.value.txid = res.txid
            /\ res.value = Null <=> confirmed = {} /\ pending = {}

\* a transaction that is both confirmed and still in the stored mempool
C16_Witness ==
    /\ DetailReturned
    /\ res.consulted = {"txes"}
    /\ \E i \in DOMAIN mempool : mempool[i].txid = res.txid
    /\ res.value.txid = res.txid
    /\ res.value.blockhash \in {txes[i].blockhash : i \in DOMAIN txes}

\* the inputs of the raw transaction whose previous-transaction lookup fails:
\* the RPC call fails, the node does not return the transaction, or the
\* transaction has no output of that index
FailedInputs(rawTx, down) ==
    {k \in DOMAIN rawTx.vin :
        /\ ~rawTx.vin[k].coinbase
        /\ \/ rawTx.vin[k].txid \in down \cup Unknown
           \/ rawTx.vin[k].vout + 1 > Len(RawTx(rawTx.vin[k].txid).vout)}

\* the call resolved a pending transaction and its own raw-transaction lookup
\* gave a transaction the enrichment went through
Enriched ==
    /\ PendingReturned
    /\ res.txid \notin res.down \cup Unknown
    /\ \A i \in DOMAIN RawTx(res.txid).vout : RawTx(res.txid).vout[i].scriptPubKey

\* C17: in an enriched pending detail vin has one entry per input of the raw
\* transaction, and the entry of every non-coinbase input whose
\* previous-transaction lookup fails is "unknown" with amount 0.
C17_UnknownInputPlaceholder ==
    Enriched =>
        LET rawTx == RawTx(res.txid)
        IN  /\ Len(res.value.vin) = Len(rawTx.vin)
            /\ \A k \in FailedInputs(rawTx, res.down) :
                 res.value.vin[k] = [addresses |-> "unknown", amount |-> 0]

RECURSIVE SumAmounts(_)
SumAmounts(entries) == IF entries = <<>> THEN 0 ELSE Head(entries).amount + SumAmounts(Tail(entries))

\* C18: the total of a pending detail is the sum of the amounts of its vout
\* list; when the raw-transaction lookup of the transaction itself fails the
\* detail has empty vin and vout, total 0 and isPending = true.
C18_PendingTotal ==
    PendingReturned =>
        /\ res.value.total = SumAmounts(res.value.vout)
        /\ res.value.isPending = TRUE
        /\ res.txid \in res.down \cup Unknown =>
             res.value.vin = <<>> /\ res.value.vout = <<>> /\ res.value.total = 0

\* the detail of transaction 2: two outputs, only the one with an address
\* listed and counted
C18_Witness ==
    /\ PendingReturned
    /\ res.txid = 2
    /\ Len(res.value.vout) = 1
    /\ res.value.total = 300

(***************************************************************************)
(* Claims about the mempool view                                           *)
(***************************************************************************)
\* getMempoolTransactions handed the enriched entries to its caller
PoolReturned ==
    res.op = "getMempoolTransactions" /\ res.outcome = "returned" /\ res.failed = "none"

\* both live calls gave a result and the listing has an entry
LiveListed ==
    /\ res.info.ok /\ res.info.result # Null
    /\ res.rawMempool.ok /\ res.rawMempool.result # Null
    /\ res.rawMempool.result.keys # <<>>

\* the transaction ids of the returned entries, in order
ReturnedIds == [k \in DOMAIN res.transactions |-> res.transactions[k].txid]

\* the first n elements of a list
Prefix(s, n) == [k \in 1 .. (IF Len(s) < n THEN Len(s) ELSE n) |-> s[k]]

\* the returned entries are the stored snapshot, latest first
FromStored ==
    /\ Len(res.transactions) = Len(mempool)
    /\ {res.transactions[k].txid : k \in DOMAIN res.transactions} = {mempool[i].txid : i \in DOMAIN mempool}
    /\ \A k \in DOMAIN res.transactions :
         /\ "height" \notin DOMAIN res.transactions[k]
         /\ k > 1 => res.transactions[k - 1].time >= res.transactions[k].time

\* the returned entries are the live listing, in its order
FromLive ==
    /\ ReturnedIds = Prefix(res.rawMempool.result.keys, 20)
    /\ \A k \in DOMAIN res.transactions : "height" \in DOMAIN res.transactions[k]

\* C13: the entries enriched are the live listing when the live calls succeed
\* and the listing is non-empty, and the stored snapshot when a live call
\* fails or the listing is empty; the two are never merged.
C13_LiveOrStored ==
    PoolReturned => IF LiveListed THEN FromLive ELSE FromStored

\* the live listing 2, 1 returned while the stored snapshot holds other entries
C13_Witness ==
    /\ PoolReturned /\ LiveListed
    /\ ReturnedIds = <<2, 1>>
    /\ \E i \in DOMAIN mempool : mempool[i].txid \notin {1, 2}

\* C14: every entry among the first 20 of the selected set whose
\* raw-transaction lookup fails is in the result at its position with total 0,
\* value 0 and empty vin and vout, and the other entries are what they are
\* when no lookup fails.
C14_FailedEntryKept ==
    PoolReturned =>
        LET selected == IF LiveListed
                        THEN Len(res.rawMempool.result.keys)
                        ELSE Len(mempool)
        IN  /\ Len(res.transactions) = (IF selected < 20 THEN selected ELSE 20)
            /\ LiveListed => ReturnedIds = Prefix(res.rawMempool.result.keys, 20)
            /\ ~LiveListed => FromStored
            /\ \A k \in DOMAIN res.transactions :
                 LET entry == res.transactions[k]
                     whole == Enrichment([txid |-> entry.txid], {})[1]
                 IN  IF entry.txid \in res.down \cup Unknown
                     THEN /\ entry.total = 0 /\ entry.value = Frac(0, 1)
                          /\ entry.vin = <<>> /\ entry.vout = <<>>
                     ELSE /\ entry.total = whole.total /\ entry.value = whole.value
                          /\ entry.vin = whole.vin /\ entry.vout = whole.vout

\* the listing of 21 entries with the lookups of the first and of the
\* twentieth failing
C14_Witness ==
    /\ PoolReturned /\ LiveListed
    /\ Len(res.transactions) = 20
    /\ res.down = {1, 20}
    /\ res.transactions[20].txid = 20 /\ res.transactions[20].total = 0
    /\ res.transactions[2].total = 300

RECURSIVE SumOfOutputs(_)
\* the amounts of all the outputs of a raw transaction, in the smallest unit
SumOfOutputs(vout) ==
    IF vout = <<>> THEN 0
    ELSE Head(vout).value.whole * 100000000 + Head(vout).value.decimals + SumOfOutputs(Tail(vout))

\* C15: the total of an entry whose raw transaction is resolved is the sum of
\* the amounts of all its outputs, scaled by 100000000, whatever their address
\* lists are; one output of 5 coins with a coinbase input gives 500000000.
C15_TotalOfAllOutputs ==
    PoolReturned =>
        \A k \in DOMAIN res.transactions :
            LET entry == res.transactions[k]
            IN  entry.txid \notin res.down \cup Unknown =>
                    /\ entry.total = SumOfOutputs(RawTx(entry.txid).vout)
                    /\ entry.txid = 1 => entry.total = 500000000

(***************************************************************************)
(* Claims about the mining statistics' difficulty and hash rate            *)
(***************************************************************************)
\* both RPC reads of getMiningStats gave a result
MiningReadsSucceeded ==
    /\ res.rpc.miningInfo.ok /\ res.rpc.miningInfo.result # Null
    /\ res.rpc.hashps.ok

\* C21: the difficulty and networkhashps of getMiningStats are both the live
\* values (getmininginfo's difficulty, getnetworkhashps / 1000) when the RPC
\* reads succeed, and both the values of the latest snapshot (difficulty_pow,
\* nethash / 1000, or 0 without a snapshot) when an RPC read fails.
C21_LiveOrStoredPair ==
    MiningReturned =>
        \E latest \in LatestNetworkHistory :
            IF MiningReadsSucceeded
            THEN /\ res.difficulty = res.rpc.miningInfo.result.difficulty
                 /\ Reduced(res.networkhashps) = Reduced(Frac(res.rpc.hashps.result, 1000))
            ELSE /\ res.difficulty = (IF latest = Null THEN 0 ELSE latest.difficulty_pow)
                 /\ Reduced(res.networkhashps) =
                        Reduced(Frac(IF latest = Null THEN 0 ELSE latest.nethash, 1000))

\* C25: each special block of heights 1, 2 and 3 is looked up on its own: a
\* lookup that fails leaves only its own block without a hash, and every
\* other special block whose height is in the transaction log carries the
\* blockhash of a record of that height.
C25_SpecialBlocksIndependent ==
    MiningReturned =>
        \A i \in 1 .. 3 :
            LET hashes == {txes[k].blockhash : k \in {k \in DOMAIN txes : txes[k].blockindex = i}}
            IN  /\ res.specialBlocks[i].height = i
                /\ IF i = res.failing \/ hashes = {}
                   THEN res.specialBlocks[i].hash = NullStr
                   ELSE res.specialBlocks[i].hash \in hashes

(***************************************************************************)
(* Claims about the difficulty history                                     *)
(***************************************************************************)
\* getDifficultyHistory handed its points to the caller, no read having failed
HistoryReturned ==
    res.op = "getDifficultyHistory" /\ res.outcome = "returned" /\ res.failed = "none"

\* the sets of n most recent documents of src by field (all of them when src
\* has fewer), as sets of positions
MostRecent(src, field, n) ==
    {I \in SUBSET DOMAIN src :
        /\ Cardinality(I) = (IF Len(src) < n THEN Len(src) ELSE n)
        /\ \A i \in I, j \in DOMAIN src \ I : src[j][field] <= src[i][field]}

\* the points are those of the documents of src at the positions I, each
\* document once; points[i] is the point of src[i]
PointsOf(value, points, I) ==
    /\ Len(value) = Cardinality(I)
    /\ \A k \in DOMAIN value :
         Cardinality({m \in DOMAIN value : value[m] = value[k]})
           = Cardinality({i \in I : points[i] = value[k]})

\* C22: getDifficultyHistory(limit) takes its points from the first non-empty
\* source in the order network history, block store, transaction log, never
\* from two of them; the result is ascending by height and has at most limit
\* points: the most recent ones of the source. An empty network history and a
\* block store of n <= limit entries give exactly the n points of the store.
C22_FirstNonEmptySource ==
    HistoryReturned =>
        LET value == res.value
            snapshots == SubSeq(networkhistories, 1, res.read.networkhistories)
            store == SubSeq(blocks, 1, res.read.blocks)
            log == SubSeq(txes, 1, res.read.txes)
        IN  /\ \A k \in DOMAIN value : k > 1 => value[k - 1].blockHeight <= value[k].blockHeight
            /\ Len(value) <= res.limit
            /\ IF snapshots # <<>>
               THEN \E I \in MostRecent(snapshots, "blockindex", res.limit) :
                      PointsOf(value,
                               [i \in DOMAIN snapshots |->
                                   [blockHeight |-> snapshots[i].blockindex,
                                    difficulty |-> snapshots[i].difficulty_pow,
                                    timestamp |-> snapshots[i].timestamp]], I)
               ELSE IF store # <<>>
               THEN /\ \E I \in MostRecent(store, "height", res.limit) :
                         PointsOf(value,
                                  [i \in DOMAIN store |->
                                      [blockHeight |-> store[i].height,
                                       difficulty |-> store[i].difficulty,
                                       timestamp |-> store[i].timestamp]], I)
                    /\ Len(store) <= res.limit => Len(value) = Len(store)
               ELSE /\ log = <<>> => value = <<>>
                    /\ \A k \in DOMAIN value :
                         /\ \E i \in DOMAIN log :
                              /\ log[i].blockindex = value[k].blockHeight
                              /\ log[i].timestamp = value[k].timestamp
                         /\ k > 1 => value[k - 1].blockHeight < value[k].blockHeight

\* the network history empty, the block store full: its points in ascending
\* height under the default limit, the transaction log left aside
C22_Witness ==
    /\ HistoryReturned
    /\ res.limit = 50
    /\ networkhistories = <<>> /\ txes # <<>>
    /\ Len(blocks) >= 3 /\ Len(res.value) = Len(blocks)
    /\ res.value[1].blockHeight = 1 /\ res.value[Len(res.value)].blockHeight > 1
    /\ res.value[1].difficulty = 10

(***************************************************************************)
(* Claims about pagination under a growing log                             *)
(***************************************************************************)
\* getPaginatedBlocks handed a page of blocks to its caller, no read having
\* failed
BlockPageReturned ==
    res.op = "getPaginatedBlocks" /\ res.outcome = "returned" /\ res.failed = "none"

\* C24: the distinct-block count is computed once and reused: once a call of
\* getPaginatedBlocks has reported totalItems and totalPages, every later call
\* for another page with the same limit reports the same two numbers, whatever
\* the ingester appends in between; and the page a call returns is taken
\* from the set of block hashes the call counted.
C24_CountComputedOnce ==
    /\ \A page \in Pages, limit \in Limits, items \in 0 .. NumHashes, pages \in 0 .. NumHashes :
         []((/\ BlockPageReturned
             /\ res.page = page /\ res.limit = limit
             /\ res.totalItems = items /\ res.totalPages = pages)
              => []((BlockPageReturned /\ res.page # page /\ res.limit = limit)
                       => (res.totalItems = items /\ res.totalPages = pages)))
    /\ [](BlockPageReturned => res.totalItems = Cardinality({txes[i].blockhash : i \in DOMAIN txes}))

\* getDifficultyHistory went through the per-height reconstruction and handed
\* its points to the caller
Reconstructed == HistoryReturned /\ res.latestHeight > 0

\* C26: the reconstruction from the latest known height H has exactly one
\* point for each height of [max(1, H - limit + 1), H] that has a
\* TransactionRecord and no other point; a point's difficulty is the
\* difficulty_pow of the snapshot with the greatest blockindex <= its height
\* among those stored at its lookup, 0 when there is none.
C26_ReconstructedPoints ==
    Reconstructed =>
        LET value == res.value
            H == res.latestHeight
            lowest == IF H - res.limit + 1 > 1 THEN H - res.limit + 1 ELSE 1
            present == {h \in lowest .. H : \E i \in DOMAIN txes : txes[i].blockindex = h}
        IN  /\ {value[k].blockHeight : k \in DOMAIN value} = present
            /\ Len(value) = Cardinality(present)
            /\ \A k \in DOMAIN value :
                 LET h == value[k].blockHeight
                     seen == {res.lookups[m].seen : m \in {m \in DOMAIN res.lookups : res.lookups[m].height = h}}
                 IN  \A n \in seen :
                        LET below == {i \in 1 .. n : networkhistories[i].blockindex <= h}
                        IN  IF below = {}
                            THEN value[k].difficulty = 0
                            ELSE \E i \in below :
                                   /\ \A j \in below :
                                        networkhistories[j].blockindex <= networkhistories[i].blockindex
                                   /\ value[k].difficulty = networkhistories[i].difficulty_pow

\* a reconstruction over the heights 1 and 2 where height 1 has no
\* transaction: one point, of height 2, with the difficulty of a snapshot the
\* collector stored during the request
C26_Witness ==
    /\ Reconstructed
    /\ res.latestHeight = 2 /\ res.limit >= 2
    /\ \A i \in DOMAIN txes : txes[i].blockindex # 1
    /\ Len(res.value) = 1
    /\ res.value[1].blockHeight = 2 /\ res.value[1].difficulty = 7
    /\ res.read.networkhistories = 0

(***************************************************************************)
(* Claims about the latest snapshot                                        *)
(***************************************************************************)
\* getNetworkStats read both collections and handed the statistics over
NetworkReturned ==
    res.op = "getNetworkStats" /\ res.outcome = "returned" /\ res.failed = "none" /\ coinstats # Null

\* getMiningStats returned with the stored difficulty and hash rate, the RPC
\* having failed
MiningStored == MiningReturned /\ ~res.rpc.miningInfo.ok

\* the stored snapshots with the greatest blockindex
GreatestBlockindex ==
    {i \in DOMAIN networkhistories :
        \A j \in DOMAIN networkhistories : networkhistories[j].blockindex <= networkhistories[i].blockindex}

\* C27: the difficulty and hash rate getNetworkStats and getMiningStats take
\* from the network history are those of the snapshot with the greatest
\* blockindex of all stored snapshots, also when the order of the timestamps
\* is not the order of the blockindex values.
C27_LatestByBlockindex ==
    /\ (NetworkReturned /\ networkhistories # <<>>) =>
          \E i \in GreatestBlockindex :
             /\ res.value.difficulty_pow = networkhistories[i].difficulty_pow
             /\ Reduced(res.value.nethash) = Reduced(Frac(networkhistories[i].nethash, 1000))
    /\ (MiningStored /\ networkhistories # <<>>) =>
          \E i \in GreatestBlockindex :
             /\ res.difficulty = networkhistories[i].difficulty_pow
             /\ Reduced(res.networkhashps) = Reduced(Frac(networkhistories[i].nethash, 1000))

(***************************************************************************)
(* Claims about the cost of the mempool view                               *)
(***************************************************************************)
\* the positions of the log of RPC calls that hold a call of the method
CallsOf(method) == {k \in DOMAIN res.rpcCalls : res.rpcCalls[k].method = method}

\* C28: one call of getMempoolTransactions makes at most 22 RPC calls: one
\* getmempoolinfo, at most one getrawmempool and one getrawtransaction for
\* each returned entry, of which there are at most 20, in their order; no
\* lookup is for the previous transaction of an input and no call is made a
\* second time after it failed.
C28_BoundedRpcCalls ==
    PoolReturned =>
        LET lookups == SelectSeq(res.rpcCalls, LAMBDA c : c.method = "getrawtransaction")
        IN  /\ Len(res.rpcCalls) <= 22
            /\ Cardinality(CallsOf("getmempoolinfo")) = 1
            /\ Cardinality(CallsOf("getrawmempool")) <= 1
            /\ Len(lookups) <= 20
            /\ Len(lookups) = Len(res.transactions)
            /\ \A k \in DOMAIN lookups : lookups[k].txid = res.transactions[k].txid
            /\ Len(res.rpcCalls)
                 = Cardinality(CallsOf("getmempoolinfo")) + Cardinality(CallsOf("getrawmempool")) + Len(lookups)

\* a listing of 21 entries costs 22 calls, the failed lookup of the twentieth
\* entry made once; the second entry spends outputs of the first
C28_Witness ==
    /\ PoolReturned /\ LiveListed
    /\ Len(res.rawMempool.result.keys) = 21
    /\ Len(res.rpcCalls) = 22
    /\ res.down = {20}
    /\ Cardinality({k \in CallsOf("getrawtransaction") : res.rpcCalls[k].txid = 20}) = 1
    /\ Cardinality({k \in CallsOf("getrawtransaction") : res.rpcCalls[k].txid = 1}) = 1

\* C29: the list returned has exactly min(20, n) entries, n being the size of
\* the selected set (the live listing, or the stored snapshot latest first):
\* its first 20 entries in their order; no entry after the twentieth is in
\* the list, enriched or bare.
C29_FirstTwentyOnly ==
    PoolReturned =>
        IF LiveListed
        THEN LET keys == res.rawMempool.result.keys
                 n == Len(keys)
             IN  /\ Len(res.transactions) = (IF n < 20 THEN n ELSE 20)
                 /\ \A k \in DOMAIN res.transactions : res.transactions[k].txid = keys[k]
                 /\ \A k \in DOMAIN keys :
                      k > 20 => \A m \in DOMAIN res.transactions : res.transactions[m].txid # keys[k]
        ELSE LET n == Len(mempool)
             IN  /\ Len(res.transactions) = (IF n < 20 THEN n ELSE 20)
                 /\ \E o \in SortDesc(mempool, "time") :
                      \A k \in DOMAIN res.transactions : res.transactions[k].txid = o[k].txid

\* the listing of 21 entries, every lookup answered: the first 20 come back
\* and the twenty-first does not
C29_Witness ==
    /\ PoolReturned /\ LiveListed
    /\ Len(res.rawMempool.result.keys) = 21
    /\ res.down = {}
    /\ Len(res.transactions) = 20
    /\ res.transactions[20].txid = 20 /\ res.transactions[20].total = 20
    /\ \A k \in DOMAIN res.transactions : res.transactions[k].txid # 21

====
